---- MODULE Spec2Model ----
(***************************************************************************)
(* Cripto Facil (src/app.py, the program text of lines 880-1738): users,   *)
(* wallets ("carteiras") and buy/sell operations ("operacoes") kept in     *)
(* three CSV files and driven by Streamlit sessions.                       *)
(*                                                                         *)
(* Numbers.  quantidade and custo_total are counted in whole units of the  *)
(* smallest entered amount; preco_medio_compra_na_op and                   *)
(* lucro_prejuizo_na_op are exact fractions [num, den] in lowest terms,    *)
(* NaN being [num |-> 0, den |-> 0].  float64 rounding is not modelled.    *)
(*                                                                         *)
(* Identifiers.  uuid.uuid4() is a fresh value: a counter.  0 stands for   *)
(* None in the session's id fields.                                        *)
(*                                                                         *)
(* Wallet rows keep id, nacional and cpf_usuario; tipo, nome, info1 and    *)
(* info2 are only displayed and are left out.  A user row keeps cpf, name  *)
(* and password_hash; phone and email are compared exactly like name in    *)
(* the recovery form and are folded into it.                               *)
(***************************************************************************)
EXTENDS Integers, Sequences, FiniteSets, TLC

VARIABLES
    users,            \* rows of users.csv
    carteiras,        \* rows of carteiras.csv
    operacoes_csv,    \* operacoes.csv: [exists, rows], timestamps as text
    uuid,             \* [carteira, operacao]: identifiers drawn so far
    session_state,    \* st.session_state of every browser session
    mensagem,         \* what the last script run surfaced (st.error/warning/success)
    pc,               \* per session: where a script run stands between reading and
                      \* writing a file (linha) and the frame it holds (df)
    cache_file,       \* cryptocurrencies_cache.csv of the catalog server
    servidor,         \* the catalog server: its last request and answer
    cryptos_file,     \* cryptos.json, the price snapshot
    coleta            \* the price refresh job: its locals and its position

vars == <<users, carteiras, operacoes_csv, uuid, session_state, mensagem, pc,
          cache_file, servidor, cryptos_file, coleta>>

\* the application, the catalog server and the refresh job are three
\* programs; a step of one leaves the state of the others alone
app_vars == <<users, carteiras, operacoes_csv, uuid, session_state, mensagem, pc>>
servidor_vars == <<cache_file, servidor>>
coleta_vars == <<cryptos_file, coleta>>

----------------------------------------------------------------------------
(* Bounds of the model *)

MaxOperacoes == 4
MaxCarteiras == 2

Sessoes == {1, 2}
CPFs == {"111", "222"}
Nomes == {"ana"}
Senhas == {"s1"}
Criptos == {"BTC", "ETH"}
Tipos == {"Compra", "Venda"}
Nacionalidades == {"Nacional", "Estrangeira"}
SidebarPages == {"Portfolio", "Carteiras"}

SemChave == "<KeyError>"     \* a key st.session_state does not hold

----------------------------------------------------------------------------
(* Exact arithmetic standing for float *)

RECURSIVE GCD(_, _)
GCD(a, b) == IF b = 0 THEN a ELSE GCD(b, a % b)

Abs(x) == IF x < 0 THEN -x ELSE x

NaN == [num |-> 0, den |-> 0]

notna(x) == x.den # 0

\* n / d, d > 0
Div(n, d) ==
    LET g == GCD(Abs(n), d)
    IN  [num |-> n \div g, den |-> d \div g]

\* the integer k as a fraction
Num(k) == [num |-> k, den |-> 1]

\* k * f and k - f for an integer k and a fraction f
Times(k, f) == IF notna(f) THEN Div(k * f.num, f.den) ELSE NaN
Minus(k, f) == IF notna(f) THEN Div(k * f.den - f.num, f.den) ELSE NaN

\* f + g, and f / k for an integer k > 0
Mais(f, g) ==
    IF notna(f) /\ notna(g)
    THEN Div(f.num * g.den + g.num * f.den, f.den * g.den)
    ELSE NaN
Sobre(f, k) == IF notna(f) THEN Div(f.num, f.den * k) ELSE NaN

----------------------------------------------------------------------------
(* Timestamps.  datetime.combine(data_operacao, hora_operacao) is a date,  *)
(* a second of that day and a fraction of a second; the CSV text           *)
(* '%Y-%m-%d %H:%M:%S' keeps the date and the second.                      *)

Datetime(data, seg, micro) == [data |-> data, seg |-> seg, micro |-> micro]

\* a <= b on datetimes
dt_le(a, b) ==
    \/ a.data < b.data
    \/ a.data = b.data /\ a.seg < b.seg
    \/ a.data = b.data /\ a.seg = b.seg /\ a.micro <= b.micro

\* Series.dt.strftime('%Y-%m-%d %H:%M:%S')
strftime(ts) == <<ts.data, ts.seg>>

\* pd.to_datetime of that text
to_datetime(txt) == Datetime(txt[1], txt[2], 0)

----------------------------------------------------------------------------
(* DataFrames of operations: [rows, datetimelike].  datetimelike is the    *)
(* dtype of column data_operacao: datetime64 when it was parsed or holds   *)
(* datetimes, object for the empty frame built without a file.             *)

RECURSIVE SumCol(_, _)
SumCol(rows, col) ==
    IF rows = <<>> THEN 0 ELSE rows[1][col] + SumCol(Tail(rows), col)

MapRows(rows, F(_)) == [i \in 1..Len(rows) |-> F(rows[i])]

WithData(row, d) == [row EXCEPT !.data_operacao = d]

load_operacoes ==
    IF operacoes_csv.exists
    THEN [rows |-> MapRows(operacoes_csv.rows,
                           LAMBDA r : WithData(r, to_datetime(r.data_operacao))),
          datetimelike |-> TRUE]
    ELSE [rows |-> <<>>, datetimelike |-> FALSE]

\* save_operacoes raises AttributeError on a frame whose data_operacao is
\* not datetimelike (.dt accessor); otherwise it rewrites the whole file.
save_operacoes_raises(df) == ~df.datetimelike

\* (mutant) only the last row of the frame reaches the file
save_ultima_linha(df) ==
    [exists |-> TRUE,
     rows |-> MapRows(SubSeq(df.rows, Len(df.rows), Len(df.rows)),
                      LAMBDA r : WithData(r, strftime(r.data_operacao)))]

save_operacoes(df) ==
    [exists |-> TRUE,
     rows |-> MapRows(df.rows, LAMBDA r : WithData(r, strftime(r.data_operacao)))]

\* pd.concat([df, nova], ignore_index=True): an empty frame does not decide
\* the dtype of the result
concat(df, nova) == [rows |-> Append(df.rows, nova), datetimelike |-> TRUE]

\* the ledger as the program reads it
operacoes == load_operacoes.rows

----------------------------------------------------------------------------
(* Session state (src/app.py:1716-1729) and the initial state: no file on  *)
(* disk, every session fresh.                                              *)

\* coingecko_api_server.py as started: no cache file, no request served yet
ServidorInicial ==
    /\ cache_file = [existe |-> FALSE, linhas |-> <<>>, recente |-> FALSE]
    /\ servidor = [search |-> "", pedidos |-> 0, status |-> 0, corpo |-> <<>>]

\* gerar_cryptos_json.py not running; no snapshot has been written yet
ColetaInicial ==
    /\ cryptos_file = [existe |-> FALSE, cryptos |-> <<>>, escritas |-> 0]
    /\ coleta = [linha |-> "parado", page |-> 0, retries |-> 0, success |-> FALSE,
                 all_cryptos_data |-> <<>>, origem |-> <<>>, pedidos |-> 0,
                 puladas |-> {}]

\* no script run of the session is between a read and a write
Ocioso == [linha |-> "idle", df |-> [rows |-> <<>>, datetimelike |-> FALSE]]

SessaoInicial ==
    [logged_in |-> TRUE,
     cpf |-> SemChave,
     auth_page |-> "login",
     pagina_atual |-> "Portfolio",
     accessed_wallet_id |-> 0,
     confirm_delete_wallet_id |-> 0,
     confirm_delete_operation_id |-> 0]

Init ==
    /\ users = <<>>
    /\ carteiras = <<>>
    /\ operacoes_csv = [exists |-> FALSE, rows |-> <<>>]
    /\ uuid = [carteira |-> 0, operacao |-> 0]
    /\ session_state = [s \in Sessoes |-> SessaoInicial]
    /\ mensagem = <<>>
    /\ pc = [s \in Sessoes |-> Ocioso]
    /\ ServidorInicial
    /\ ColetaInicial

hash_password(password) == <<"sha256", password>>

Rows(df, Keep(_)) == SelectSeq(df, Keep)

Ids(rows) == {rows[i].id : i \in 1..Len(rows)}

\* the handlers of one session run one at a time, each to its end
Pronta(s) == pc[s].linha = "idle"

Com(s, campos) == [session_state EXCEPT ![s] = campos]

----------------------------------------------------------------------------
(* Sidebar (src/app.py:1004-1033) *)

SidebarBtn(s, page_name) ==
    /\ Pronta(s)
    /\ session_state[s].logged_in
    /\ session_state' = Com(s, [session_state[s] EXCEPT
            !.pagina_atual = page_name,
            !.accessed_wallet_id = 0,
            !.confirm_delete_wallet_id = 0,
            !.confirm_delete_operation_id = 0])
    /\ mensagem' = <<>>
    /\ UNCHANGED <<users, carteiras, operacoes_csv, uuid, pc>>

Sair(s) ==
    /\ Pronta(s)
    /\ session_state[s].logged_in
    /\ session_state' = Com(s, [session_state[s] EXCEPT
            !.logged_in = FALSE,
            !.auth_page = "login",
            !.pagina_atual = "Portfolio",
            !.accessed_wallet_id = 0,
            !.confirm_delete_wallet_id = 0,
            !.confirm_delete_operation_id = 0])
    /\ mensagem' = <<>>
    /\ UNCHANGED <<users, carteiras, operacoes_csv, uuid, pc>>

----------------------------------------------------------------------------
(* Authentication pages (src/app.py:1632-1711) *)

AuthPageBtn(s, destino) ==
    /\ Pronta(s)
    /\ ~session_state[s].logged_in
    /\ \/ session_state[s].auth_page = "login" /\ destino \in {"register", "forgot"}
       \/ session_state[s].auth_page \in {"register", "forgot"} /\ destino = "login"
    /\ session_state' = Com(s, [session_state[s] EXCEPT !.auth_page = destino])
    /\ mensagem' = <<>>
    /\ UNCHANGED <<users, carteiras, operacoes_csv, uuid, pc>>

Entrar(s, cpf, senha) ==
    /\ Pronta(s)
    /\ ~session_state[s].logged_in
    /\ session_state[s].auth_page = "login"
    /\ IF users = <<>>
       THEN /\ mensagem' = <<"error: Nenhum usuario cadastrado.">>
            /\ UNCHANGED session_state
       ELSE IF Rows(users, LAMBDA u : u.cpf = cpf
                                   /\ u.password_hash = hash_password(senha)) = <<>>
       THEN /\ mensagem' = <<"error: CPF ou senha incorretos.">>
            /\ UNCHANGED session_state
       ELSE /\ session_state' = Com(s, [session_state[s] EXCEPT
                    !.logged_in = TRUE,
                    !.cpf = cpf,
                    !.pagina_atual = "Portfolio"])
            /\ mensagem' = <<>>
    /\ UNCHANGED <<users, carteiras, operacoes_csv, uuid, pc>>

Cadastrar(s, name, cpf, password, password_confirm) ==
    /\ Pronta(s)
    /\ ~session_state[s].logged_in
    /\ session_state[s].auth_page = "register"
    /\ IF password # password_confirm
       THEN /\ mensagem' = <<"error: Senhas nao coincidem.">>
            /\ UNCHANGED <<users, session_state>>
       ELSE IF Rows(users, LAMBDA u : u.cpf = cpf) # <<>>
       THEN /\ mensagem' = <<"error: CPF ja cadastrado.">>
            /\ UNCHANGED <<users, session_state>>
       ELSE /\ users' = Append(users, [cpf |-> cpf, name |-> name,
                                       password_hash |-> hash_password(password)])
            /\ session_state' = Com(s, [session_state[s] EXCEPT !.auth_page = "login"])
            /\ mensagem' = <<"success: Cadastro realizado!">>
    /\ UNCHANGED <<carteiras, operacoes_csv, uuid, pc>>

VerificarEAcessar(s, name, cpf) ==
    /\ Pronta(s)
    /\ ~session_state[s].logged_in
    /\ session_state[s].auth_page = "forgot"
    /\ IF Rows(users, LAMBDA u : u.name = name /\ u.cpf = cpf) # <<>>
       THEN /\ session_state' = Com(s, [session_state[s] EXCEPT
                    !.logged_in = TRUE,
                    !.cpf = cpf,
                    !.pagina_atual = "Portfolio"])
            /\ mensagem' = <<"success: Informacoes verificadas!">>
       ELSE /\ mensagem' = <<"error: Dados informados nao correspondem.">>
            /\ UNCHANGED session_state
    /\ UNCHANGED <<users, carteiras, operacoes_csv, uuid, pc>>

----------------------------------------------------------------------------
(* Page "Carteiras" (src/app.py:1069-1189).  The page reads                *)
(* st.session_state["cpf"] first, so nothing of it renders for a session   *)
(* that holds no cpf.                                                      *)

PaginaCarteiras(s) ==
    /\ Pronta(s)
    /\ session_state[s].logged_in
    /\ session_state[s].pagina_atual = "Carteiras"
    /\ session_state[s].cpf # SemChave

user_carteiras_df(s) == Rows(carteiras, LAMBDA c : c.cpf_usuario = session_state[s].cpf)

CriarCarteira(s, nacional) ==
    /\ PaginaCarteiras(s)
    /\ uuid.carteira < MaxCarteiras
    /\ uuid' = [uuid EXCEPT !.carteira = @ + 1]
    /\ carteiras' = Append(carteiras, [id |-> uuid.carteira + 1,
                                       nacional |-> nacional,
                                       cpf_usuario |-> session_state[s].cpf])
    /\ mensagem' = <<"success: Carteira criada com sucesso!">>
    /\ UNCHANGED <<users, operacoes_csv, session_state, pc>>

AcessarCarteira(s, id) ==
    /\ PaginaCarteiras(s)
    /\ id \in Ids(user_carteiras_df(s))
    /\ session_state' = Com(s, [session_state[s] EXCEPT
            !.accessed_wallet_id = id,
            !.pagina_atual = "Detalhes da Carteira",
            !.confirm_delete_wallet_id = 0,
            !.confirm_delete_operation_id = 0])
    /\ mensagem' = <<>>
    /\ UNCHANGED <<users, carteiras, operacoes_csv, uuid, pc>>

ExcluirCarteiraBtn(s, id) ==
    /\ PaginaCarteiras(s)
    /\ id \in Ids(user_carteiras_df(s))
    /\ session_state' = Com(s, [session_state[s] EXCEPT !.confirm_delete_wallet_id = id])
    /\ mensagem' = <<>>
    /\ UNCHANGED <<users, carteiras, operacoes_csv, uuid, pc>>

\* The confirmation box: wallet_name = df_carteiras[...]['nome'].iloc[0]
\* raises IndexError before the two buttons when the wallet is not stored.
ModalCarteira(s) ==
    /\ PaginaCarteiras(s)
    /\ session_state[s].confirm_delete_wallet_id # 0
    /\ session_state[s].confirm_delete_wallet_id \in Ids(carteiras)

\* a script run that reaches the confirmation box (1156) while the wallet is
\* not stored: .iloc[0] of the empty selection raises IndexError (1159); the
\* run ends there and the flag stays as it is
CarteiraNaoEncontrada(s) ==
    /\ PaginaCarteiras(s)
    /\ session_state[s].confirm_delete_wallet_id # 0
    /\ session_state[s].confirm_delete_wallet_id \notin Ids(carteiras)
    /\ mensagem' = <<"exception: IndexError">>
    /\ UNCHANGED <<users, carteiras, operacoes_csv, uuid, session_state, pc>>

\* first write: save_carteiras(df_carteiras_updated)
df_carteiras_updated(id) == Rows(carteiras, LAMBDA c : c.id # id)

\* (mutant) the second write keeps every operation
df_operacoes_sem_filtro(df, id) == df

\* second write: the operations of every other wallet
df_operacoes_updated(df, id) ==
    [rows |-> Rows(df.rows, LAMBDA r : r.wallet_id # id),
     datetimelike |-> df.datetimelike]

\* "Sim, Excluir", from the second write on
ExcluirOperacoesDaCarteira(s) ==
    LET id == session_state[s].confirm_delete_wallet_id
        df == df_operacoes_updated(load_operacoes, id)
    IN  IF save_operacoes_raises(df)
        THEN /\ mensagem' = <<"exception: AttributeError">>
             /\ UNCHANGED <<operacoes_csv, session_state>>
        ELSE /\ operacoes_csv' = save_operacoes(df)
             /\ session_state' = Com(s, [session_state[s] EXCEPT
                    !.confirm_delete_wallet_id = 0])
             /\ mensagem' = <<"success: Carteira e suas operacoes excluidas com sucesso!">>

\* "Sim, Excluir": the whole handler
ConfirmarExclusaoCarteira(s) ==
    /\ ModalCarteira(s)
    /\ carteiras' = df_carteiras_updated(session_state[s].confirm_delete_wallet_id)
    /\ ExcluirOperacoesDaCarteira(s)
    /\ UNCHANGED <<users, uuid, pc>>

CancelarExclusaoCarteira(s) ==
    /\ ModalCarteira(s)
    /\ session_state' = Com(s, [session_state[s] EXCEPT !.confirm_delete_wallet_id = 0])
    /\ mensagem' = <<>>
    /\ UNCHANGED <<users, carteiras, operacoes_csv, uuid, pc>>

----------------------------------------------------------------------------
(* Page "Detalhes da Carteira" (src/app.py:1198-1628).  show_wallet_details *)
(* returns at once without an accessed wallet, and                         *)
(* df_carteiras[...].iloc[0] raises when the wallet is not stored.         *)

PaginaDetalhes(s) ==
    /\ Pronta(s)
    /\ session_state[s].logged_in
    /\ session_state[s].pagina_atual = "Detalhes da Carteira"
    /\ session_state[s].accessed_wallet_id # 0
    /\ session_state[s].accessed_wallet_id \in Ids(carteiras)

current_wallet(s) ==
    Rows(carteiras, LAMBDA c : c.id = session_state[s].accessed_wallet_id)[1]

is_foreign_wallet(s) == current_wallet(s).nacional = "Estrangeira"


----------------------------------------------------------------------------
(* The consolidated portfolio of the accessed wallet (src/app.py:1231-     *)
(* 1296), computed by every script run that shows the page.  The order in  *)
(* which the positions are then displayed (1307) is left out.              *)

\* (mutant) the operations of every wallet of the user's file are aggregated
wallet_ops_de_todas_as_carteiras(s) == load_operacoes.rows

wallet_ops_for_portfolio(s) ==
    Rows(load_operacoes.rows, LAMBDA r :
        /\ r.wallet_id = session_state[s].accessed_wallet_id
        /\ r.cpf_usuario = session_state[s].cpf)

\* Series.sum() of a column of floats: NaN entries are skipped
RECURSIVE sum_skipna(_)
sum_skipna(valores) ==
    IF valores = <<>> THEN Num(0)
    ELSE IF notna(valores[1])
         THEN Mais(valores[1], sum_skipna(Tail(valores)))
         ELSE sum_skipna(Tail(valores))

\* Series.unique(): the distinct symbols in the order of first appearance
RECURSIVE unique(_)
unique(rows) ==
    IF rows = <<>> THEN <<>>
    ELSE LET antes == unique(SubSeq(rows, 1, Len(rows) - 1))
             c == rows[Len(rows)].cripto
         IN  IF \E i \in 1..Len(antes) : antes[i] = c THEN antes ELSE Append(antes, c)

\* (mutant) the realized result of the asset is added to its cost
posicao_com_lucro_no_custo(wallet_ops, cripto_simbolo) ==
    LET ops_cripto == Rows(wallet_ops, LAMBDA r : r.cripto = cripto_simbolo)
        compras == Rows(ops_cripto, LAMBDA r : r.tipo_operacao = "Compra")
        vendas_da_cripto == Rows(ops_cripto, LAMBDA r : r.tipo_operacao = "Venda")
        quantidade_atual == SumCol(compras, "quantidade") - SumCol(vendas_da_cripto, "quantidade")
        lucro == sum_skipna(MapRows(vendas_da_cripto, LAMBDA r : r.lucro_prejuizo_na_op))
        custo == Mais(Num(SumCol(compras, "custo_total")), lucro)
    IN  [Cripto |-> cripto_simbolo,
         Quantidade |-> quantidade_atual,
         CustoTotal |-> custo,
         CustoMedio |-> IF quantidade_atual > 0 THEN Sobre(custo, quantidade_atual) ELSE Num(0),
         LucroRealizado |-> lucro]

\* the entry of portfolio_detail for one symbol (1252-1285)
posicao(wallet_ops, cripto_simbolo) ==
    LET ops_cripto == Rows(wallet_ops, LAMBDA r : r.cripto = cripto_simbolo)
        compras == Rows(ops_cripto, LAMBDA r : r.tipo_operacao = "Compra")
        vendas_da_cripto == Rows(ops_cripto, LAMBDA r : r.tipo_operacao = "Venda")
        qtd_comprada == SumCol(compras, "quantidade")
        qtd_vendida == SumCol(vendas_da_cripto, "quantidade")
        quantidade_atual == qtd_comprada - qtd_vendida
        total_custo_comprado == SumCol(compras, "custo_total")
        total_custo_base_vendido ==
            sum_skipna(MapRows(vendas_da_cripto,
                LAMBDA r : Times(r.quantidade, r.preco_medio_compra_na_op)))
        custo_total_atual_estimado ==
            Minus(total_custo_comprado, total_custo_base_vendido)
        custo_medio ==
            IF quantidade_atual > 0
            THEN Sobre(custo_total_atual_estimado, quantidade_atual)
            ELSE Num(0)
        lucro_realizado_cripto ==
            sum_skipna(MapRows(vendas_da_cripto, LAMBDA r : r.lucro_prejuizo_na_op))
    IN  [Cripto |-> cripto_simbolo,
         Quantidade |-> quantidade_atual,
         CustoTotal |-> custo_total_atual_estimado,
         CustoMedio |-> custo_medio,
         LucroRealizado |-> lucro_realizado_cripto]

\* (mutant) every symbol of the wallet gets an entry
portfolio_sem_filtro(wallet_ops) ==
    MapRows(unique(wallet_ops), LAMBDA c : posicao(wallet_ops, c))

\* portfolio_df: the entries of the symbols with quantidade_atual > 0 (1258,
\* 1289), in the order of portfolio_detail
portfolio_df(wallet_ops) ==
    Rows(MapRows(unique(wallet_ops), LAMBDA c : posicao(wallet_ops, c)),
         LAMBDA p : p.Quantidade > 0)

\* (mutant) the realized total is summed over the table
total_lucro_das_posicoes(wallet_ops) ==
    sum_skipna(MapRows(portfolio_df(wallet_ops), LAMBDA p : p.LucroRealizado))

\* total_lucro_realizado (1241-1248)
total_lucro_realizado(wallet_ops) ==
    sum_skipna(MapRows(Rows(wallet_ops, LAMBDA r : r.tipo_operacao = "Venda"),
                       LAMBDA r : r.lucro_prejuizo_na_op))

\* total_custo_carteira_atualizado (1291-1294)
total_custo_carteira_atualizado(wallet_ops) ==
    sum_skipna(MapRows(portfolio_df(wallet_ops), LAMBDA p : p.CustoTotal))

\* (mutant) the operation waiting for its deletion to be confirmed is left out
portfolio_sem_pendente(s) ==
    LET ops == Rows(wallet_ops_for_portfolio(s),
                    LAMBDA r : r.id # session_state[s].confirm_delete_operation_id)
    IN  [posicoes |-> portfolio_df(ops),
         total_custo |-> total_custo_carteira_atualizado(ops),
         total_lucro |-> total_lucro_realizado(ops)]

\* what the page shows of the portfolio
portfolio(s) ==
    LET ops == wallet_ops_for_portfolio(s)
    IN  [posicoes |-> portfolio_df(ops),
         total_custo |-> total_custo_carteira_atualizado(ops),
         total_lucro |-> total_lucro_realizado(ops)]

----------------------------------------------------------------------------
(* The form "Cadastrar Nova Operacao" (src/app.py:1336-1460) *)

\* (mutant) every earlier operation of the asset is averaged, Sells included
compras_e_vendas_anteriores(df, wallet_id, user_cpf, cripto, data_hora_completa) ==
    Rows(df.rows, LAMBDA r :
        /\ r.wallet_id = wallet_id
        /\ r.cpf_usuario = user_cpf
        /\ r.cripto = cripto
        /\ dt_le(r.data_operacao, data_hora_completa))

\* (mutant) the wallet is left out of the filter
compras_de_todas_as_carteiras(df, wallet_id, user_cpf, cripto, data_hora_completa) ==
    Rows(df.rows, LAMBDA r :
        /\ r.cpf_usuario = user_cpf
        /\ r.tipo_operacao = "Compra"
        /\ r.cripto = cripto
        /\ dt_le(r.data_operacao, data_hora_completa))

\* the Buys a Sell is averaged over
compras_anteriores(df, wallet_id, user_cpf, cripto, data_hora_completa) ==
    Rows(df.rows, LAMBDA r :
        /\ r.wallet_id = wallet_id
        /\ r.cpf_usuario = user_cpf
        /\ r.tipo_operacao = "Compra"
        /\ r.cripto = cripto
        /\ dt_le(r.data_operacao, data_hora_completa))

\* (mutant) an unbacked Sell is given a unit cost of 0
preco_medio_zero_sem_compras(tipo, compras, quantidade, custo_total_final_brl) ==
    IF tipo = "Compra"
    THEN IF quantidade > 0 THEN Div(custo_total_final_brl, quantidade) ELSE NaN
    ELSE IF compras # <<>> /\ SumCol(compras, "quantidade") > 0
         THEN Div(SumCol(compras, "custo_total"), SumCol(compras, "quantidade"))
         ELSE Num(0)

\* (mutant) a Buy's unit cost with the division turned around
preco_medio_invertido(tipo, compras, quantidade, custo_total_final_brl) ==
    IF tipo = "Compra"
    THEN IF custo_total_final_brl > 0 THEN Div(quantidade, custo_total_final_brl) ELSE NaN
    ELSE IF compras # <<>> /\ SumCol(compras, "quantidade") > 0
         THEN Div(SumCol(compras, "custo_total"), SumCol(compras, "quantidade"))
         ELSE NaN

\* preco_medio_compra_na_op of the operation being recorded
preco_medio_compra(tipo, compras, quantidade, custo_total_final_brl) ==
    IF tipo = "Compra"
    THEN IF quantidade > 0 THEN Div(custo_total_final_brl, quantidade) ELSE NaN
    ELSE IF compras # <<>> /\ SumCol(compras, "quantidade") > 0
         THEN Div(SumCol(compras, "custo_total"), SumCol(compras, "quantidade"))
         ELSE NaN

\* (mutant) cost basis minus proceeds
lucro_prejuizo_trocado(tipo, preco_medio, quantidade, custo_total_final_brl) ==
    IF tipo = "Venda" /\ notna(preco_medio)
    THEN Minus(0, Minus(custo_total_final_brl, Times(quantidade, preco_medio)))
    ELSE NaN

\* lucro_prejuizo_na_op of the operation being recorded
lucro_prejuizo(tipo, preco_medio, quantidade, custo_total_final_brl) ==
    IF tipo = "Venda" /\ notna(preco_medio)
    THEN Minus(custo_total_final_brl, Times(quantidade, preco_medio))
    ELSE NaN

\* custo_total_final_brl: the entered value, converted on a foreign wallet
\* (mutant) the entered amount is stored as it is
valor_sem_conversao(is_foreign, custo_total_input, ptax_input) == custo_total_input

valor_em_brl(is_foreign, custo_total_input, ptax_input) ==
    IF is_foreign THEN custo_total_input * ptax_input ELSE custo_total_input

\* the two checks made on a submitted form before anything is read or written
campos_invalidos(quantidade, custo_total_input) ==
    quantidade <= 0 \/ custo_total_input <= 0

\* (mutant) the PTAX check is missing
ptax_sem_verificacao(is_foreign, ptax_input) == FALSE

ptax_invalida(is_foreign, ptax_input) == is_foreign /\ ptax_input <= 0

\* "Registrar Operacao": the submitted form.  ptax is what the PTAX field
\* holds; a domestic wallet has no such field and uses 1.0.
\* the row built by the handler from the frame it has loaded (1410-1456)
nova_operacao(s, df_operacoes_existentes, tipo, cripto, quantidade, custo_total_input, ptax_input, data_hora_completa) ==
    LET wallet_id == session_state[s].accessed_wallet_id
        user_cpf == session_state[s].cpf
        custo_total_final_brl ==
            valor_em_brl(is_foreign_wallet(s), custo_total_input, ptax_input)
        compras == compras_anteriores(df_operacoes_existentes, wallet_id,
                                      user_cpf, cripto, data_hora_completa)
        preco_medio_compra_na_op ==
            preco_medio_compra(tipo, compras, quantidade, custo_total_final_brl)
        lucro_prejuizo_na_op ==
            lucro_prejuizo(tipo, preco_medio_compra_na_op, quantidade,
                           custo_total_final_brl)
    IN  [id |-> uuid.operacao + 1,
         wallet_id |-> wallet_id,
         cpf_usuario |-> user_cpf,
         tipo_operacao |-> tipo,
         cripto |-> cripto,
         quantidade |-> quantidade,
         custo_total |-> custo_total_final_brl,
         data_operacao |-> data_hora_completa,
         preco_medio_compra_na_op |-> preco_medio_compra_na_op,
         lucro_prejuizo_na_op |-> lucro_prejuizo_na_op,
         ptax_na_op |-> Num(ptax_input)]

\* what the accepting branch surfaces
mensagens_do_registro(nova) ==
    (IF nova.tipo_operacao = "Venda" /\ ~notna(nova.preco_medio_compra_na_op)
     THEN <<"warning: Nao ha operacoes de compra anteriores">>
     ELSE <<>>)
    \o <<"success: Operacao registrada com sucesso!">>

RegistrarOperacao(s, tipo, cripto, quantidade, custo_total_input, ptax, data_hora_completa) ==
    /\ PaginaDetalhes(s)
    /\ LET foreign == is_foreign_wallet(s)
           ptax_input == IF foreign THEN ptax ELSE 1
       IN  IF campos_invalidos(quantidade, custo_total_input)
           THEN /\ mensagem' = <<"error: preencha todos os campos da operacao corretamente">>
                /\ UNCHANGED <<operacoes_csv, uuid>>
           ELSE IF ptax_invalida(foreign, ptax_input)
           THEN /\ mensagem' = <<"error: informe uma taxa PTAX valida">>
                /\ UNCHANGED <<operacoes_csv, uuid>>
           ELSE
             LET df_operacoes_existentes == load_operacoes
                 nova == nova_operacao(s, df_operacoes_existentes, tipo, cripto,
                                       quantidade, custo_total_input, ptax_input,
                                       data_hora_completa)
             IN  /\ uuid.operacao < MaxOperacoes
                 /\ uuid' = [uuid EXCEPT !.operacao = @ + 1]
                 /\ operacoes_csv' =
                        save_operacoes(concat(df_operacoes_existentes, nova))
                 /\ mensagem' = mensagens_do_registro(nova)
    /\ UNCHANGED <<users, carteiras, session_state, pc>>

\* the operations listed on the page
wallet_operations_all(s) ==
    Rows(load_operacoes.rows, LAMBDA r :
        /\ r.wallet_id = session_state[s].accessed_wallet_id
        /\ r.cpf_usuario = session_state[s].cpf)

\* the options of the "Cripto" filter: the symbols of the wallet (1535)
all_cryptos_in_wallet(s) ==
    {wallet_operations_all(s)[i].cripto : i \in 1..Len(wallet_operations_all(s))}

\* (mutant) the end of the date range is left out
filtradas_sem_o_ultimo_dia(s, filter_type, filter_crypto, filter_date_range) ==
    Rows(wallet_operations_all(s), LAMBDA r :
        /\ filter_type # {} => r.tipo_operacao \in filter_type
        /\ filter_crypto # {} => r.cripto \in filter_crypto
        /\ Len(filter_date_range) = 2 =>
                /\ r.data_operacao.data >= filter_date_range[1]
                /\ r.data_operacao.data < filter_date_range[2]
        /\ Len(filter_date_range) = 1 => r.data_operacao.data = filter_date_range[1])

\* filtered_operations (1540-1554): the values of the three filter widgets
\* are inputs of the script run; an empty selection does not filter
filtered_operations(s, filter_type, filter_crypto, filter_date_range) ==
    Rows(wallet_operations_all(s), LAMBDA r :
        /\ filter_type # {} => r.tipo_operacao \in filter_type
        /\ filter_crypto # {} => r.cripto \in filter_crypto
        /\ Len(filter_date_range) = 2 =>
                /\ r.data_operacao.data >= filter_date_range[1]
                /\ r.data_operacao.data <= filter_date_range[2]
        /\ Len(filter_date_range) = 1 => r.data_operacao.data = filter_date_range[1])

\* DataFrame.sort_values(by='data_operacao', ascending=False), default kind
\* (quicksort): the rows from the latest to the earliest; the order of rows
\* with equal data_operacao is not defined, so this is the set of the
\* orders the call can return.  I is the set of places still to be put.
RECURSIVE sort_values(_, _)
sort_values(rows, I) ==
    IF I = {} THEN {<<>>}
    ELSE UNION {{<<rows[i]>> \o resto : resto \in sort_values(rows, I \ {i})} :
                i \in {j \in I : \A k \in I :
                            dt_le(rows[k].data_operacao, rows[j].data_operacao)}}

\* sorted_operations (1574): what the listing can show, from top to bottom
sorted_operations(s, filter_type, filter_crypto, filter_date_range) ==
    LET f == filtered_operations(s, filter_type, filter_crypto, filter_date_range)
    IN  sort_values(f, 1..Len(f))

\* confirm_delete_operation_id names an operation that is not in the file
Obsoleta(s) ==
    /\ session_state[s].confirm_delete_operation_id # 0
    /\ session_state[s].confirm_delete_operation_id \notin Ids(load_operacoes.rows)

\* a script run that reaches the confirmation box (1466) while the operation
\* is not in the file: whatever was clicked in the box or in the listing
\* below it, the run clears the flag, warns and starts again (1498-1502)
OperacaoNaoEncontrada(s) ==
    /\ PaginaDetalhes(s)
    /\ Obsoleta(s)
    /\ session_state' = Com(s, [session_state[s] EXCEPT !.confirm_delete_operation_id = 0])
    /\ mensagem' = <<"warning: A operacao que voce tentou excluir nao foi encontrada.">>
    /\ UNCHANGED <<users, carteiras, operacoes_csv, uuid, pc>>

\* the bin button of a listed operation
ExcluirOperacaoBtn(s, id) ==
    /\ PaginaDetalhes(s)
    /\ ~Obsoleta(s)
    /\ id \in Ids(wallet_operations_all(s))
    /\ session_state' = Com(s, [session_state[s] EXCEPT !.confirm_delete_operation_id = id])
    /\ mensagem' = <<>>
    /\ UNCHANGED <<users, carteiras, operacoes_csv, uuid, pc>>

\* (mutant) the box does not look the operation up
modal_sem_procura(s) ==
    /\ PaginaDetalhes(s)
    /\ session_state[s].confirm_delete_operation_id # 0

\* the confirmation box of an operation that is in the file
ModalOperacao(s) ==
    /\ PaginaDetalhes(s)
    /\ session_state[s].confirm_delete_operation_id # 0
    /\ session_state[s].confirm_delete_operation_id \in Ids(load_operacoes.rows)

\* (mutant) the comparison with the id is an order comparison
df_ops_menores(df, id) ==
    [rows |-> Rows(df.rows, LAMBDA r : r.id < id), datetimelike |-> df.datetimelike]

df_ops_after_delete(df, id) ==
    [rows |-> Rows(df.rows, LAMBDA r : r.id # id), datetimelike |-> df.datetimelike]

ConfirmarExclusaoOperacao(s) ==
    /\ ModalOperacao(s)
    /\ operacoes_csv' = save_operacoes(
            df_ops_after_delete(load_operacoes, session_state[s].confirm_delete_operation_id))
    /\ session_state' = Com(s, [session_state[s] EXCEPT !.confirm_delete_operation_id = 0])
    /\ mensagem' = <<"success: Operacao excluida com sucesso!">>
    /\ UNCHANGED <<users, carteiras, uuid, pc>>

CancelarExclusaoOperacao(s) ==
    /\ ModalOperacao(s)
    /\ session_state' = Com(s, [session_state[s] EXCEPT !.confirm_delete_operation_id = 0])
    /\ mensagem' = <<>>
    /\ UNCHANGED <<users, carteiras, operacoes_csv, uuid, pc>>

----------------------------------------------------------------------------
(* SpecApp: the application from a fresh install, one browser session,     *)
(* every handler run to its end.  One user registers; the forms are        *)
(* submitted with the smallest amounts, valid and invalid.                 *)

MaxOperacoesApp == 2

SenhasDigitadas == Senhas \cup {"errada"}
NomesDigitados == Nomes \cup {"outro"}
CPFsApp == {"111"}
QuantidadesApp == 0..1
CustosApp == 0..1
Ptaxes == {0, 5}
DataHorasApp == {Datetime(1, 0, 0)}

Autenticacao(s) ==
    \/ /\ UNCHANGED <<servidor_vars, coleta_vars>>
       /\ \E d \in {"login", "register", "forgot"} : AuthPageBtn(s, d)
    \/ /\ UNCHANGED <<servidor_vars, coleta_vars>>
       /\ \E cpf \in CPFsApp, senha \in SenhasDigitadas : Entrar(s, cpf, senha)
    \/ /\ UNCHANGED <<servidor_vars, coleta_vars>>
       /\ \E n \in Nomes, cpf \in CPFsApp, p \in Senhas, p2 \in SenhasDigitadas :
            Cadastrar(s, n, cpf, p, p2)
    \/ /\ UNCHANGED <<servidor_vars, coleta_vars>>
       /\ \E n \in NomesDigitados, cpf \in CPFsApp : VerificarEAcessar(s, n, cpf)

Navegacao(s) ==
    \/ /\ UNCHANGED <<servidor_vars, coleta_vars>>
       /\ \E page_name \in SidebarPages : SidebarBtn(s, page_name)
    \/ /\ UNCHANGED <<servidor_vars, coleta_vars>>
       /\ Sair(s)

PaginaDeCarteiras(s) ==
    \/ /\ UNCHANGED <<servidor_vars, coleta_vars>>
       /\ \E nacional \in Nacionalidades : CriarCarteira(s, nacional)
    \/ /\ UNCHANGED <<servidor_vars, coleta_vars>>
       /\ \E id \in 1..MaxCarteiras : AcessarCarteira(s, id)
    \/ /\ UNCHANGED <<servidor_vars, coleta_vars>>
       /\ \E id \in 1..MaxCarteiras : ExcluirCarteiraBtn(s, id)
    \/ /\ UNCHANGED <<servidor_vars, coleta_vars>>
       /\ ConfirmarExclusaoCarteira(s)
    \/ /\ UNCHANGED <<servidor_vars, coleta_vars>>
       /\ CancelarExclusaoCarteira(s)
    \/ /\ UNCHANGED <<servidor_vars, coleta_vars>>
       /\ CarteiraNaoEncontrada(s)

PaginaDeDetalhes(s) ==
    \/ /\ UNCHANGED <<servidor_vars, coleta_vars>>
       /\ uuid.operacao < MaxOperacoesApp
       /\ \E tipo \in Tipos, q \in QuantidadesApp, c \in CustosApp,
             ptax \in Ptaxes, dh \in DataHorasApp :
                RegistrarOperacao(s, tipo, "BTC", q, c, ptax, dh)
    \/ /\ UNCHANGED <<servidor_vars, coleta_vars>>
       /\ \E id \in 1..MaxOperacoes : ExcluirOperacaoBtn(s, id)
    \/ /\ UNCHANGED <<servidor_vars, coleta_vars>>
       /\ ConfirmarExclusaoOperacao(s)
    \/ /\ UNCHANGED <<servidor_vars, coleta_vars>>
       /\ CancelarExclusaoOperacao(s)

NextApp ==
    \/ Autenticacao(1)
    \/ Navegacao(1)
    \/ PaginaDeCarteiras(1)
    \/ PaginaDeDetalhes(1)

SpecApp == Init /\ [][NextApp]_vars

----------------------------------------------------------------------------
(* Spec: the ledger of one wallet.  The initial state is a state SpecApp   *)
(* reaches (EstadoLedger): user 111 has a domestic wallet 1 and a foreign  *)
(* wallet 2, has bought 1 BTC for 1 USDT at PTAX 5 on wallet 2 and then    *)
(* 1 BTC for 1 BRL on wallet 1, and is on the page of wallet 1.  From      *)
(* there operations are recorded on wallet 1 and deleted from it.          *)

Compra(id, wallet_id, custo_total, ptax) ==
    [id |-> id,
     wallet_id |-> wallet_id,
     cpf_usuario |-> "111",
     tipo_operacao |-> "Compra",
     cripto |-> "BTC",
     quantidade |-> 1,
     custo_total |-> custo_total,
     data_operacao |-> strftime(Datetime(1, 0, 0)),
     preco_medio_compra_na_op |-> Div(custo_total, 1),
     lucro_prejuizo_na_op |-> NaN,
     ptax_na_op |-> Num(ptax)]

EstadoLedger ==
    /\ users = <<[cpf |-> "111", name |-> "ana", password_hash |-> hash_password("s1")]>>
    /\ carteiras = <<[id |-> 1, nacional |-> "Nacional", cpf_usuario |-> "111"],
                     [id |-> 2, nacional |-> "Estrangeira", cpf_usuario |-> "111"]>>
    /\ operacoes_csv = [exists |-> TRUE,
                        rows |-> <<Compra(1, 2, 5, 5), Compra(2, 1, 1, 1)>>]
    /\ uuid = [carteira |-> 2, operacao |-> 2]
    /\ session_state = [s \in Sessoes |->
            IF s = 1
            THEN [SessaoInicial EXCEPT !.cpf = "111",
                                       !.pagina_atual = "Detalhes da Carteira",
                                       !.accessed_wallet_id = 1]
            ELSE SessaoInicial]
    /\ mensagem = <<>>
    /\ pc = [s \in Sessoes |-> Ocioso]
    /\ ServidorInicial
    /\ ColetaInicial

Quantidades == {1, 3}
Custos == {2}
Datas == 1..2
Micros == 0..1
DataHoras == {Datetime(d, 0, m) : d \in Datas, m \in Micros}

NextLedger ==
    \/ /\ UNCHANGED <<servidor_vars, coleta_vars>>
       /\ \E tipo \in Tipos, cripto \in Criptos, q \in Quantidades, c \in Custos,
          dh \in DataHoras :
            RegistrarOperacao(1, tipo, cripto, q, c, 1, dh)
    \/ /\ UNCHANGED <<servidor_vars, coleta_vars>>
       /\ \E id \in 1..MaxOperacoes : ExcluirOperacaoBtn(1, id)
    \/ /\ UNCHANGED <<servidor_vars, coleta_vars>>
       /\ ConfirmarExclusaoOperacao(1)
    \/ /\ UNCHANGED <<servidor_vars, coleta_vars>>
       /\ CancelarExclusaoOperacao(1)

Spec == EstadoLedger /\ [][NextLedger]_vars

----------------------------------------------------------------------------
(* SpecCrash: the application with the two writes of the wallet deletion   *)
(* (src/app.py:1171-1182) as separate steps and the server process dying   *)
(* between them.  pc[s].linha = "save_operacoes" while the run of session s is   *)
(* between save_carteiras (1173) and save_operacoes (1177).                *)

\* "Sim, Excluir" up to and including save_carteiras(df_carteiras_updated)
SalvarCarteiras(s) ==
    /\ pc[s].linha = "idle"
    /\ ModalCarteira(s)
    /\ carteiras' = df_carteiras_updated(session_state[s].confirm_delete_wallet_id)
    /\ pc' = [pc EXCEPT ![s].linha = "save_operacoes"]
    /\ UNCHANGED <<users, operacoes_csv, uuid, session_state, mensagem>>

\* "Sim, Excluir" from load_operacoes to the end of the handler
SalvarOperacoes(s) ==
    /\ pc[s].linha = "save_operacoes"
    /\ ExcluirOperacoesDaCarteira(s)
    /\ pc' = [pc EXCEPT ![s] = Ocioso]
    /\ UNCHANGED <<users, carteiras, uuid>>

\* the server process ends between the two writes and is started again: the
\* files stay as they are and every session starts anew
Falha(s) ==
    /\ pc[s].linha = "save_operacoes"
    /\ session_state' = [t \in Sessoes |-> SessaoInicial]
    /\ pc' = [t \in Sessoes |-> Ocioso]
    /\ mensagem' = <<>>
    /\ UNCHANGED <<users, carteiras, operacoes_csv, uuid>>

PaginaDeCarteirasEmPassos(s) ==
    \/ /\ UNCHANGED <<servidor_vars, coleta_vars>>
       /\ \E nacional \in Nacionalidades : CriarCarteira(s, nacional)
    \/ /\ UNCHANGED <<servidor_vars, coleta_vars>>
       /\ \E id \in 1..MaxCarteiras : AcessarCarteira(s, id)
    \/ /\ UNCHANGED <<servidor_vars, coleta_vars>>
       /\ \E id \in 1..MaxCarteiras : ExcluirCarteiraBtn(s, id)
    \/ /\ UNCHANGED <<servidor_vars, coleta_vars>>
       /\ CancelarExclusaoCarteira(s)
    \/ /\ UNCHANGED <<servidor_vars, coleta_vars>>
       /\ CarteiraNaoEncontrada(s)

NextCrash ==
    \/ pc[1].linha = "idle" /\ Autenticacao(1)
    \/ pc[1].linha = "idle" /\ Navegacao(1)
    \/ pc[1].linha = "idle" /\ PaginaDeCarteirasEmPassos(1)
    \/ pc[1].linha = "idle" /\ PaginaDeDetalhes(1)
    \/ /\ UNCHANGED <<servidor_vars, coleta_vars>>
       /\ SalvarCarteiras(1)
    \/ /\ UNCHANGED <<servidor_vars, coleta_vars>>
       /\ SalvarOperacoes(1)
    \/ /\ UNCHANGED <<servidor_vars, coleta_vars>>
       /\ Falha(1)

SpecCrash == Init /\ [][NextCrash]_vars

----------------------------------------------------------------------------
(* SpecConc: two users, each in a session of their own on the page of      *)
(* their own wallet.  Streamlit runs the script of each session in a       *)
(* thread of its own, and nothing in the program locks operacoes.csv, so   *)
(* the read (load_operacoes) and the write (save_operacoes) of a script    *)
(* run are separate steps: pc[s].df is the frame the run of session s has  *)
(* built from what it read and will write.  The runs of one session come   *)
(* one after the other.                                                    *)

MaxOperacoesConc == 3

EstadoConc ==
    /\ users = <<[cpf |-> "111", name |-> "ana", password_hash |-> hash_password("s1")],
                 [cpf |-> "222", name |-> "ana", password_hash |-> hash_password("s1")]>>
    /\ carteiras = <<[id |-> 1, nacional |-> "Nacional", cpf_usuario |-> "111"],
                     [id |-> 2, nacional |-> "Nacional", cpf_usuario |-> "222"]>>
    /\ operacoes_csv = [exists |-> TRUE, rows |-> <<Compra(1, 1, 1, 1)>>]
    /\ uuid = [carteira |-> 2, operacao |-> 1]
    /\ session_state = [s \in Sessoes |->
            [SessaoInicial EXCEPT !.cpf = IF s = 1 THEN "111" ELSE "222",
                                  !.pagina_atual = "Detalhes da Carteira",
                                  !.accessed_wallet_id = s]]
    /\ mensagem = <<>>
    /\ pc = [s \in Sessoes |-> Ocioso]
    /\ ServidorInicial
    /\ ColetaInicial

\* "Registrar Operacao" with a valid form, from load_operacoes (1408) to the
\* frame handed to save_operacoes (1458)
CarregarParaRegistrar(s, tipo, cripto, quantidade, custo_total_input, data_hora_completa) ==
    /\ PaginaDetalhes(s)
    /\ ~campos_invalidos(quantidade, custo_total_input)
    /\ ~ptax_invalida(is_foreign_wallet(s), 1)
    /\ uuid.operacao < MaxOperacoesConc
    /\ LET df_operacoes_existentes == load_operacoes
           nova == nova_operacao(s, df_operacoes_existentes, tipo, cripto, quantidade,
                                 custo_total_input, 1, data_hora_completa)
       IN  /\ pc' = [pc EXCEPT ![s] = [linha |-> "save_registro",
                                       df |-> concat(df_operacoes_existentes, nova)]]
           /\ mensagem' = SubSeq(mensagens_do_registro(nova), 1,
                                 Len(mensagens_do_registro(nova)) - 1)
    /\ uuid' = [uuid EXCEPT !.operacao = @ + 1]
    /\ UNCHANGED <<users, carteiras, operacoes_csv, session_state>>

\* save_operacoes (1458) and the success message
SalvarRegistro(s) ==
    /\ pc[s].linha = "save_registro"
    /\ operacoes_csv' = save_operacoes(pc[s].df)
    /\ mensagem' = <<"success: Operacao registrada com sucesso!">>
    /\ pc' = [pc EXCEPT ![s] = Ocioso]
    /\ UNCHANGED <<users, carteiras, uuid, session_state>>

\* "Sim, Excluir" of an operation, from load_operacoes (1469) to the frame
\* handed to save_operacoes (1487)
CarregarParaExcluir(s) ==
    /\ ModalOperacao(s)
    /\ pc' = [pc EXCEPT ![s] =
            [linha |-> "save_exclusao",
             df |-> df_ops_after_delete(load_operacoes,
                                        session_state[s].confirm_delete_operation_id)]]
    /\ mensagem' = <<>>
    /\ UNCHANGED <<users, carteiras, operacoes_csv, uuid, session_state>>

\* save_operacoes (1488) and the rest of the handler
SalvarExclusao(s) ==
    /\ pc[s].linha = "save_exclusao"
    /\ operacoes_csv' = save_operacoes(pc[s].df)
    /\ session_state' = Com(s, [session_state[s] EXCEPT !.confirm_delete_operation_id = 0])
    /\ mensagem' = <<"success: Operacao excluida com sucesso!">>
    /\ pc' = [pc EXCEPT ![s] = Ocioso]
    /\ UNCHANGED <<users, carteiras, uuid>>

DatasConc == 1..2

NextConc ==
    \E s \in Sessoes :
        \/ /\ UNCHANGED <<servidor_vars, coleta_vars>>
           /\ \E tipo \in Tipos, dh \in {Datetime(d, 0, 0) : d \in DatasConc} :
                CarregarParaRegistrar(s, tipo, "BTC", 1, 2, dh)
        \/ /\ UNCHANGED <<servidor_vars, coleta_vars>>
           /\ SalvarRegistro(s)
        \/ /\ UNCHANGED <<servidor_vars, coleta_vars>>
           /\ \E id \in 1..MaxOperacoesConc : ExcluirOperacaoBtn(s, id)
        \/ /\ UNCHANGED <<servidor_vars, coleta_vars>>
           /\ CarregarParaExcluir(s)
        \/ /\ UNCHANGED <<servidor_vars, coleta_vars>>
           /\ SalvarExclusao(s)
        \/ /\ UNCHANGED <<servidor_vars, coleta_vars>>
           /\ CancelarExclusaoOperacao(s)

SpecConc == EstadoConc /\ [][NextConc]_vars

----------------------------------------------------------------------------
(* SpecDuas: user 111 with two browser sessions on the page of wallet 1,   *)
(* script runs one at a time.  What one session deletes may be what the    *)
(* other session is about to delete.                                       *)

MaxOperacoesDuas == 3

EstadoDuas ==
    /\ users = <<[cpf |-> "111", name |-> "ana", password_hash |-> hash_password("s1")]>>
    /\ carteiras = <<[id |-> 1, nacional |-> "Nacional", cpf_usuario |-> "111"]>>
    /\ operacoes_csv = [exists |-> TRUE, rows |-> <<Compra(1, 1, 1, 1)>>]
    /\ uuid = [carteira |-> 1, operacao |-> 1]
    /\ session_state = [s \in Sessoes |->
            [SessaoInicial EXCEPT !.cpf = "111",
                                  !.pagina_atual = "Detalhes da Carteira",
                                  !.accessed_wallet_id = 1]]
    /\ mensagem = <<>>
    /\ pc = [s \in Sessoes |-> Ocioso]
    /\ ServidorInicial
    /\ ColetaInicial

NextDuas ==
    \E s \in Sessoes :
        \/ /\ UNCHANGED <<servidor_vars, coleta_vars>>
           /\ uuid.operacao < MaxOperacoesDuas
           /\ \E tipo \in Tipos, q \in Quantidades :
                RegistrarOperacao(s, tipo, "BTC", q, 2, 1, Datetime(1, 0, 0))
        \/ /\ UNCHANGED <<servidor_vars, coleta_vars>>
           /\ \E id \in 1..MaxOperacoesDuas : ExcluirOperacaoBtn(s, id)
        \/ /\ UNCHANGED <<servidor_vars, coleta_vars>>
           /\ ConfirmarExclusaoOperacao(s)
        \/ /\ UNCHANGED <<servidor_vars, coleta_vars>>
           /\ CancelarExclusaoOperacao(s)
        \/ /\ UNCHANGED <<servidor_vars, coleta_vars>>
           /\ OperacaoNaoEncontrada(s)

SpecDuas == EstadoDuas /\ [][NextDuas]_vars

----------------------------------------------------------------------------
(* SpecLista: the ledger of wallet 1 as in Spec, with operations of both   *)
(* kinds and assets on three days, for the listing and its filters.        *)

MaxOperacoesLista == 4
DatasLista == 1..3

\* what the three filter widgets can hold
FiltrosDeTipo == SUBSET Tipos
FiltrosDeCripto(s) == SUBSET all_cryptos_in_wallet(s)
FiltrosDeData ==
    {<<>>} \cup {<<d>> : d \in DatasLista}
           \cup {p \in DatasLista \X DatasLista : p[1] <= p[2]}

NextLista ==
    \/ /\ UNCHANGED <<servidor_vars, coleta_vars>>
       /\ uuid.operacao < MaxOperacoesLista
       /\ \E tipo \in Tipos, cripto \in Criptos, d \in DatasLista :
            RegistrarOperacao(1, tipo, cripto, 1, 2, 1, Datetime(d, 0, 0))
    \/ /\ UNCHANGED <<servidor_vars, coleta_vars>>
       /\ \E id \in 1..MaxOperacoesLista : ExcluirOperacaoBtn(1, id)
    \/ /\ UNCHANGED <<servidor_vars, coleta_vars>>
       /\ ConfirmarExclusaoOperacao(1)
    \/ /\ UNCHANGED <<servidor_vars, coleta_vars>>
       /\ CancelarExclusaoOperacao(1)

SpecLista == EstadoLedger /\ [][NextLista]_vars

----------------------------------------------------------------------------
(* The catalog server (src/coingecko_api_server.py): GET /cryptocurrencies *)
(* answers from cryptocurrencies_cache.csv while the file is younger than  *)
(* CACHE_LIFETIME_HOURS and asks the provider otherwise.  An entry of a    *)
(* list stands for one coin (its id, symbol and name).                     *)

\* the cells pandas.read_csv turns into NaN, and the NaN it puts there
na_values == {"", "nan"}
NaNCell == "float('nan')"

\* DataFrame(data).to_csv(CACHE_FILE, index=False): one line per entry
to_csv(data) == data

\* pd.read_csv(CACHE_FILE) raises EmptyDataError on a file without columns,
\* which is what to_csv writes for an empty list
read_csv_raises(file) == file.linhas = <<>>

\* pd.read_csv(CACHE_FILE) followed by df.to_dict(orient='records')
read_csv(file) ==
    [i \in 1..Len(file.linhas) |->
        IF file.linhas[i] \in na_values THEN NaNCell ELSE file.linhas[i]]

\* (mutant) the age of the file is not looked at
load_sem_validade ==
    IF cache_file.existe /\ ~read_csv_raises(cache_file)
    THEN [none |-> FALSE, lista |-> read_csv(cache_file)]
    ELSE [none |-> TRUE, lista |-> <<>>]

\* load_cryptos_from_cache (15-29): the list, or None
load_cryptos_from_cache ==
    IF cache_file.existe /\ ~read_csv_raises(cache_file) /\ cache_file.recente
    THEN [none |-> FALSE, lista |-> read_csv(cache_file)]
    ELSE [none |-> TRUE, lista |-> <<>>]

\* save_cryptos_to_cache (31-35)
save_cryptos_to_cache(data) ==
    [existe |-> TRUE, linhas |-> to_csv(data), recente |-> TRUE]

\* (mutant) a failed request is answered with an error, cache or not
falha_sem_cache(e) ==
    [status |-> 500, corpo |-> <<"error: Erro ao buscar criptomoedas da fonte externa">>]

\* except requests.exceptions.RequestException (52-63)
falha_do_provedor(e) ==
    IF cache_file.existe
    THEN IF read_csv_raises(cache_file)
         THEN [status |-> 500, corpo |-> <<"error: Erro grave">>]
         ELSE [status |-> 200, corpo |-> read_csv(cache_file)]
    ELSE [status |-> 500, corpo |-> <<"error: Erro ao buscar criptomoedas da fonte externa">>]

\* the search of lines 69-82; on the values of the model "search_query in
\* text" is equality.  NaN has no lower(): the AttributeError is not
\* caught and Flask answers 500.
busca(all_cryptos, search_query) ==
    IF search_query = "" THEN [status |-> 200, corpo |-> all_cryptos]
    ELSE IF \E i \in 1..Len(all_cryptos) : all_cryptos[i] = NaNCell
    THEN [status |-> 500, corpo |-> <<"exception: AttributeError">>]
    ELSE [status |-> 200,
          corpo |-> SelectSeq(all_cryptos, LAMBDA crypto : crypto = search_query)]

\* get_cryptocurrencies (37-84).  resposta is what requests.get and
\* response.json() give: a list of coins, a RequestException, or a JSON
\* object of scalars, which pd.DataFrame refuses (ValueError, 64-66).
get_cryptocurrencies(search, resposta) ==
    LET cached == load_cryptos_from_cache
        final ==
            IF ~cached.none THEN busca(cached.lista, search)
            ELSE IF resposta.tipo = "lista" THEN busca(resposta.json, search)
            ELSE IF resposta.tipo = "RequestException"
            THEN LET antigo == falha_do_provedor(resposta)
                 IN  IF antigo.status = 200 THEN busca(antigo.corpo, search)
                     ELSE antigo
            ELSE [status |-> 500, corpo |-> <<"error: Ocorreu um erro interno">>]
    IN  /\ cache_file' = IF cached.none /\ resposta.tipo = "lista"
                         THEN save_cryptos_to_cache(resposta.json)
                         ELSE cache_file
        /\ servidor' = [search |-> search,
                        pedidos |-> IF cached.none THEN 1 ELSE 0,
                        status |-> final.status,
                        corpo |-> final.corpo]
        /\ UNCHANGED <<app_vars, coleta_vars>>

\* CACHE_LIFETIME_HOURS pass since the file was written
PassarODia ==
    /\ cache_file.existe
    /\ cache_file.recente
    /\ cache_file' = [cache_file EXCEPT !.recente = FALSE]
    /\ UNCHANGED <<servidor, app_vars, coleta_vars>>

\* the lists the provider can answer with: up to MaxLista distinct coins
MaxLista == 2
Moedas == {"btc", "eth", "nan"}
Listas ==
    UNION {{l \in [1..n -> Moedas] : \A i, j \in 1..n : i # j => l[i] # l[j]} :
           n \in 0..MaxLista}
Buscas == {"", "btc", "eth"}
RespostasDoProvedor ==
    {[tipo |-> "lista", json |-> l] : l \in Listas}
        \cup {[tipo |-> t, json |-> <<>>] : t \in {"RequestException", "objeto"}}

NextServidor ==
    \/ \E search \in Buscas, resposta \in RespostasDoProvedor :
            get_cryptocurrencies(search, resposta)
    \/ PassarODia

SpecServidor == Init /\ [][NextServidor]_vars

----------------------------------------------------------------------------
(* The price refresh job (src/gerar_cryptos_json.py).  One run of          *)
(* fetch_and_save_crypto_data, in steps: the call of requests.get, which   *)
(* has no timeout and returns only when the provider answers or the        *)
(* request fails; the rest of the loop body; the move to the next page;    *)
(* the write of cryptos.json.                                              *)

\* 40 in the source; the pages of the model
TOTAL_PAGES_TO_FETCH == 3
MAX_RETRIES == 5

\* a coin whose symbol is null: coin.get('symbol', '') gives None and
\* None.upper() raises AttributeError
SemSimbolo == "None"

\* symbol.upper() (71)
upper(symbol) ==
    CASE symbol = "btc" -> "BTC"
      [] symbol = "eth" -> "ETH"
      [] OTHER -> symbol

\* the coins the loop of lines 69-82 appends before it ends or raises
RECURSIVE processadas(_)
processadas(coins) ==
    IF coins = <<>> \/ Head(coins) = SemSimbolo THEN <<>>
    ELSE <<[symbol |-> upper(Head(coins))]>> \o processadas(Tail(coins))

\* the loop over the coins raises
processamento_falha(coins) == \E i \in 1..Len(coins) : coins[i] = SemSimbolo

\* a snapshot written by an earlier run that fetched every page
SnapshotAnterior == <<[symbol |-> "BTC"], [symbol |-> "ETH"], [symbol |-> "BTC"]>>

\* the state before a run: the application and the server as started, the
\* snapshot of an earlier complete run on disk
EstadoColeta ==
    /\ users = <<>>
    /\ carteiras = <<>>
    /\ operacoes_csv = [exists |-> FALSE, rows |-> <<>>]
    /\ uuid = [carteira |-> 0, operacao |-> 0]
    /\ session_state = [s \in Sessoes |-> SessaoInicial]
    /\ mensagem = <<>>
    /\ pc = [s \in Sessoes |-> Ocioso]
    /\ ServidorInicial
    /\ cryptos_file = [existe |-> TRUE, cryptos |-> SnapshotAnterior, escritas |-> 0]
    /\ coleta = [linha |-> "parado", page |-> 0, retries |-> 0, success |-> FALSE,
                 all_cryptos_data |-> <<>>, origem |-> <<>>, pedidos |-> 0,
                 puladas |-> {}]

\* lines 27-37: the run starts with the first page
Iniciar ==
    /\ coleta.linha = "parado"
    /\ coleta' = [coleta EXCEPT !.linha = "while", !.page = 1, !.retries = 0,
                                !.success = FALSE, !.all_cryptos_data = <<>>,
                                !.origem = <<>>, !.pedidos = 0, !.puladas = {}]
    /\ UNCHANGED <<cryptos_file, app_vars, servidor_vars>>

\* lines 38-49: the loop condition holds and requests.get is called
PedirPagina ==
    /\ coleta.linha = "while"
    /\ coleta.retries < MAX_RETRIES
    /\ ~coleta.success
    /\ coleta' = [coleta EXCEPT !.linha = "requests.get",
                                !.pedidos = coleta.pedidos + 1]
    /\ UNCHANGED <<cryptos_file, app_vars, servidor_vars>>

\* lines 51-105, once requests.get has returned or raised: 429 (51-56), an
\* exception of raise_for_status or response.json() (88-99), an empty page
\* (62-66), the coins appended one by one (69-86), an exception in the
\* middle of them (100-105)
resto_do_laco(resposta) ==
    IF resposta.tipo = "coins"
    THEN [coleta EXCEPT
            !.linha = "while",
            !.success = ~processamento_falha(resposta.coins),
            !.retries = IF processamento_falha(resposta.coins)
                        THEN coleta.retries + 1 ELSE coleta.retries,
            !.all_cryptos_data = coleta.all_cryptos_data \o processadas(resposta.coins),
            !.origem = coleta.origem \o
                        [i \in 1..Len(processadas(resposta.coins)) |-> coleta.page]]
    ELSE [coleta EXCEPT !.linha = "while", !.retries = coleta.retries + 1]

\* the provider answers, or the request fails
Responder(resposta) ==
    /\ coleta.linha = "requests.get"
    /\ coleta' = resto_do_laco(resposta)
    /\ UNCHANGED <<cryptos_file, app_vars, servidor_vars>>

\* lines 107-119 and 33: the retry loop is over, with or without success;
\* puladas are the pages reported as a persistent failure (108-109)
ProximaPagina ==
    /\ coleta.linha = "while"
    /\ coleta.success \/ coleta.retries >= MAX_RETRIES
    /\ LET puladas == IF coleta.success THEN coleta.puladas
                      ELSE coleta.puladas \cup {coleta.page}
       IN  coleta' = IF coleta.page < TOTAL_PAGES_TO_FETCH
                     THEN [coleta EXCEPT !.page = coleta.page + 1, !.retries = 0,
                                         !.success = FALSE, !.pedidos = 0,
                                         !.puladas = puladas]
                     ELSE [coleta EXCEPT !.linha = "open", !.puladas = puladas]
    /\ UNCHANGED <<cryptos_file, app_vars, servidor_vars>>

\* lines 122-135: whatever was collected replaces the file
Salvar ==
    /\ coleta.linha = "open"
    /\ cryptos_file' = [existe |-> TRUE,
                        cryptos |-> coleta.all_cryptos_data,
                        escritas |-> cryptos_file.escritas + 1]
    /\ coleta' = [coleta EXCEPT !.linha = "fim"]
    /\ UNCHANGED <<app_vars, servidor_vars>>

\* what one call of requests.get can end in
PaginasDoProvedor ==
    {<<>>, <<"btc">>, <<"btc", "eth">>, <<"btc", SemSimbolo>>, <<SemSimbolo>>}
RespostasDaPagina ==
    {[tipo |-> "coins", coins |-> c] : c \in PaginasDoProvedor}
        \cup {[tipo |-> t, coins |-> <<>>] :
                t \in {"429", "RequestException", "JSONDecodeError"}}

PassoDaColeta == Iniciar \/ PedirPagina \/ ProximaPagina \/ Salvar

NextColeta ==
    \/ Iniciar
    \/ PedirPagina
    \/ \E resposta \in RespostasDaPagina : Responder(resposta)
    \/ ProximaPagina
    \/ Salvar

\* the job runs on: its own steps are taken when they can be; nothing
\* makes the provider answer
SpecColeta == EstadoColeta /\ [][NextColeta]_vars /\ WF_vars(PassoDaColeta)

----------------------------------------------------------------------------
(* Properties.  They are stated on the ledger as the program reads it      *)
(* back (operacoes), with their own arithmetic on the stored fractions.    *)

\* a recorded no later than b, on stored timestamps
AteOInstante(a, b) ==
    LET x == a.data_operacao
        y == b.data_operacao
    IN  \/ x.data < y.data
        \/ x.data = y.data /\ x.seg < y.seg
        \/ x.data = y.data /\ x.seg = y.seg /\ x.micro <= y.micro

\* the places in ops of the Buys that qualify for the Sell v
Qualificadas(ops, v) ==
    {i \in 1..Len(ops) :
        /\ ops[i].tipo_operacao = "Compra"
        /\ ops[i].wallet_id = v.wallet_id
        /\ ops[i].cpf_usuario = v.cpf_usuario
        /\ ops[i].cripto = v.cripto
        /\ AteOInstante(ops[i], v)}

RECURSIVE Soma(_, _, _)
Soma(ops, I, campo) ==
    IF I = {} THEN 0
    ELSE LET i == CHOOSE j \in I : TRUE
         IN  ops[i][campo] + Soma(ops, I \ {i}, campo)

\* the fraction f is the quotient custo / quantidade
Quociente(f, custo, quantidade) ==
    f.den > 0 /\ f.num * quantidade = custo * f.den

\* a step that appends one operation, and the operation it appends
Registrou == Len(operacoes') = Len(operacoes) + 1
Nova == operacoes'[Len(operacoes')]

\* C1: whenever a Sell is recorded while some Buy already in the ledger has
\* its wallet, owner and asset and a timestamp not after the Sell's, the
\* stored preco_medio_compra_na_op is the sum of custo_total over the sum of
\* quantidade of exactly those Buys.
C1_MediaDasComprasQualificadas ==
    [][(Registrou /\ Nova.tipo_operacao = "Venda" /\ Qualificadas(operacoes, Nova) # {})
        => LET Q == Qualificadas(operacoes, Nova)
           IN  Quociente(Nova.preco_medio_compra_na_op,
                         Soma(operacoes, Q, "custo_total"),
                         Soma(operacoes, Q, "quantidade"))]_vars

\* A Sell averaged over two Buys of different unit cost, recorded while a
\* Buy of another wallet is in the ledger and is left out.
C1_Witness ==
    \E i \in 1..Len(operacoes) :
        LET v == operacoes[i]
            antes == SubSeq(operacoes, 1, i - 1)
            Q == Qualificadas(antes, v)
        IN  /\ v.tipo_operacao = "Venda"
            /\ Cardinality(Q) >= 2
            /\ \E a, b \in Q : antes[a].preco_medio_compra_na_op
                                    # antes[b].preco_medio_compra_na_op
            /\ \E j \in 1..(i - 1) : /\ antes[j].tipo_operacao = "Compra"
                                     /\ antes[j].cripto = v.cripto
                                     /\ antes[j].wallet_id # v.wallet_id
            /\ Quociente(v.preco_medio_compra_na_op,
                         Soma(antes, Q, "custo_total"), Soma(antes, Q, "quantidade"))

\* C2: every stored Sell with a preco_medio_compra_na_op has
\* lucro_prejuizo_na_op = custo_total - quantidade * preco_medio_compra_na_op,
\* positive exactly when custo_total exceeds quantidade * preco_medio and
\* negative exactly when it is below.
C2_LucroDaVenda ==
    \A i \in 1..Len(operacoes) :
        LET v == operacoes[i]
            m == v.preco_medio_compra_na_op
            l == v.lucro_prejuizo_na_op
        IN  (v.tipo_operacao = "Venda" /\ m.den # 0)
            => /\ l.den > 0
               /\ l.num * m.den = (v.custo_total * m.den - v.quantidade * m.num) * l.den
               /\ (l.num > 0) = (v.custo_total * m.den > v.quantidade * m.num)
               /\ (l.num < 0) = (v.custo_total * m.den < v.quantidade * m.num)

\* A ledger holding a Sell at a profit and a Sell at a loss.
C2_Witness ==
    \E i, j \in 1..Len(operacoes) :
        /\ operacoes[i].tipo_operacao = "Venda"
        /\ operacoes[j].tipo_operacao = "Venda"
        /\ operacoes[i].lucro_prejuizo_na_op.den # 0
        /\ operacoes[j].lucro_prejuizo_na_op.den # 0
        /\ operacoes[i].lucro_prejuizo_na_op.num > 0
        /\ operacoes[j].lucro_prejuizo_na_op.num < 0

\* C3: every stored Buy has preco_medio_compra_na_op = custo_total /
\* quantidade and no lucro_prejuizo_na_op.
C3_CustoDaCompra ==
    \A i \in 1..Len(operacoes) :
        LET c == operacoes[i]
        IN  c.tipo_operacao = "Compra"
            => /\ Quociente(c.preco_medio_compra_na_op, c.custo_total, c.quantidade)
               /\ c.lucro_prejuizo_na_op.den = 0

\* A Buy of 3 units recorded through the form, next to the Buy of the
\* foreign wallet whose cost was converted.
C3_Witness ==
    /\ \E i \in 1..Len(operacoes) :
            /\ operacoes[i].tipo_operacao = "Compra"
            /\ operacoes[i].quantidade = 3
            /\ operacoes[i].preco_medio_compra_na_op = [num |-> 2, den |-> 3]
    /\ \E i \in 1..Len(operacoes) :
            /\ operacoes[i].tipo_operacao = "Compra"
            /\ operacoes[i].ptax_na_op = Num(5)

Aviso == "warning: Nao ha operacoes de compra anteriores"
Sucesso == "success: Operacao registrada com sucesso!"
Excluida == "success: Operacao excluida com sucesso!"

Surgiu(m, texto) == \E i \in 1..Len(m) : m[i] = texto

\* the timestamp a form value is stored with
Guardado(dh) == [dh EXCEPT !.micro = 0]

\* the Sell that a valid form on the accessed wallet would record
VendaPedida(cripto, dh) ==
    [wallet_id |-> session_state[1].accessed_wallet_id,
     cpf_usuario |-> session_state[1].cpf,
     cripto |-> cripto,
     data_operacao |-> Guardado(dh)]

NuncaExcluiu == Len(operacoes) = uuid.operacao

\* C5: in a ledger from which nothing was deleted, two Sells of the same
\* wallet, owner and asset whose qualifying Buys (the Buys recorded before
\* the Sell, timestamped not after it) are the same have the same
\* preco_medio_compra_na_op, whatever Sells lie between them.
C5_MediaNaoReduzidaPorVendas ==
    NuncaExcluiu =>
        \A i, j \in 1..Len(operacoes) :
            LET a == operacoes[i]
                b == operacoes[j]
                Qa == Qualificadas(SubSeq(operacoes, 1, i - 1), a)
                Qb == Qualificadas(SubSeq(operacoes, 1, j - 1), b)
            IN  (/\ i < j
                 /\ a.tipo_operacao = "Venda" /\ b.tipo_operacao = "Venda"
                 /\ a.wallet_id = b.wallet_id /\ a.cpf_usuario = b.cpf_usuario
                 /\ a.cripto = b.cripto
                 /\ Qa = Qb /\ Qa # {})
                => /\ a.preco_medio_compra_na_op.den > 0
                   /\ a.preco_medio_compra_na_op = b.preco_medio_compra_na_op

\* Two Sells of different quantities over the same Buy, the first of which
\* sold more than was bought.
C5_Witness ==
    /\ NuncaExcluiu
    /\ \E i, j \in 1..Len(operacoes) :
        LET a == operacoes[i]
            b == operacoes[j]
            Qa == Qualificadas(SubSeq(operacoes, 1, i - 1), a)
        IN  /\ i < j
            /\ a.tipo_operacao = "Venda" /\ b.tipo_operacao = "Venda"
            /\ a.wallet_id = b.wallet_id /\ a.cripto = b.cripto
            /\ Qa # {} /\ Qa = Qualificadas(SubSeq(operacoes, 1, j - 1), b)
            /\ a.quantidade >= Soma(operacoes, Qa, "quantidade")
            /\ a.quantidade # b.quantidade
            /\ a.preco_medio_compra_na_op = b.preco_medio_compra_na_op

\* C6: a step that reports a recorded operation appends one operation and
\* leaves every operation of the ledger as it was, field by field.
C6_RegistroSoAcrescenta ==
    [][Surgiu(mensagem', Sucesso)
        => /\ Registrou
           /\ \A i \in 1..Len(operacoes) : operacoes'[i] = operacoes[i]
           /\ Nova.id \notin Ids(operacoes)]_vars

\* Just after a Buy was recorded with a timestamp before that of a Sell
\* already in the ledger: the Sell still holds the average of the Buys it
\* was recorded with, not the average over the Buys now qualifying.
C6_Witness ==
    /\ Surgiu(mensagem, Sucesso)
    /\ Len(operacoes) >= 2
    /\ LET n == Len(operacoes)
           c == operacoes[n]
       IN  /\ c.tipo_operacao = "Compra"
           /\ \E i \in 1..(n - 1) :
                LET v == operacoes[i]
                    Q == Qualificadas(operacoes, v)
                IN  /\ v.tipo_operacao = "Venda"
                    /\ n \in Q
                    /\ c.data_operacao.data < v.data_operacao.data
                    /\ v.preco_medio_compra_na_op.den > 0
                    /\ ~Quociente(v.preco_medio_compra_na_op,
                                  Soma(operacoes, Q, "custo_total"),
                                  Soma(operacoes, Q, "quantidade"))

\* ops without its k-th element
Sem(ops, k) == SubSeq(ops, 1, k - 1) \o SubSeq(ops, k + 1, Len(ops))

\* C7: a step that reports a deleted operation removes from the ledger the
\* one operation whose id the session had asked to delete; every other
\* operation stays, in place and with every field as it was.
C7_ExclusaoSoRemoveUma ==
    [][Surgiu(mensagem', Excluida)
        => \E k \in 1..Len(operacoes) :
            /\ operacoes[k].id = session_state[1].confirm_delete_operation_id
            /\ \A i \in 1..Len(operacoes) :
                    i # k => operacoes[i].id # operacoes[k].id
            /\ operacoes' = Sem(operacoes, k)]_vars

\* Just after the only Buy of a wallet's asset was deleted: a Sell recorded
\* after it is still in the ledger with the average it was given.
C7_Witness ==
    /\ Surgiu(mensagem, Excluida)
    /\ \E i \in 1..Len(operacoes) :
        LET v == operacoes[i]
        IN  /\ v.tipo_operacao = "Venda"
            /\ v.preco_medio_compra_na_op.den > 0
            /\ v.lucro_prejuizo_na_op.den > 0
            /\ Qualificadas(operacoes, v) = {}

ErroCampos == "error: preencha todos os campos da operacao corretamente"
ErroPtax == "error: informe uma taxa PTAX valida"
CarteiraExcluida == "success: Carteira e suas operacoes excluidas com sucesso!"

\* C8: a submitted form with quantidade <= 0, with the entered total <= 0,
\* or on a foreign wallet with PTAX <= 0, ends in an error message and
\* leaves operacoes.csv exactly as it was (as a file: not created, not
\* rewritten).
C8_RejeitadaAntesDeEscrever ==
    [][\A tipo \in Tipos, q \in QuantidadesApp, c \in CustosApp,
          ptax \in Ptaxes, dh \in DataHorasApp :
        (/\ RegistrarOperacao(1, tipo, "BTC", q, c, ptax, dh)
         /\ \/ q <= 0
            \/ c <= 0
            \/ is_foreign_wallet(1) /\ ptax <= 0)
        => /\ operacoes_csv' = operacoes_csv
           /\ uuid' = uuid
           /\ \/ Surgiu(mensagem', ErroCampos)
              \/ Surgiu(mensagem', ErroPtax)
           /\ ~Surgiu(mensagem', Sucesso)]_vars

\* Just after a form with PTAX 0 was refused on a foreign wallet whose
\* ledger holds an operation.
C8_Witness ==
    /\ Surgiu(mensagem, ErroPtax)
    /\ session_state[1].pagina_atual = "Detalhes da Carteira"
    /\ \E c \in Ids(carteiras) : c = session_state[1].accessed_wallet_id
    /\ is_foreign_wallet(1)
    /\ \E i \in 1..Len(operacoes) :
            operacoes[i].wallet_id = session_state[1].accessed_wallet_id

\* C9: a step that removes a wallet from carteiras.csv leaves in the ledger
\* the operations of the other wallets, all of them, in place and as they
\* were, and no operation of the removed wallet.
C9_ExclusaoEmCascata ==
    [][\A id \in Ids(carteiras) :
        id \notin Ids(carteiras')
        => /\ \A i \in 1..Len(operacoes') : operacoes'[i].wallet_id # id
           /\ \A i \in 1..Len(operacoes) :
                operacoes[i].wallet_id # id
                => \E j \in 1..Len(operacoes') : operacoes'[j] = operacoes[i]
           /\ \A j \in 1..Len(operacoes') :
                \E i \in 1..Len(operacoes) : operacoes[i] = operacoes'[j]
           /\ \A j, k \in 1..Len(operacoes') :
                j < k => \E i, l \in 1..Len(operacoes) :
                            /\ i < l
                            /\ operacoes[i] = operacoes'[j]
                            /\ operacoes[l] = operacoes'[k]]_vars

\* Just after a wallet was deleted: the operation of the other wallet is in
\* the ledger and an operation recorded before it is not.
C9_Witness ==
    /\ Surgiu(mensagem, CarteiraExcluida)
    /\ Len(carteiras) = 1
    /\ uuid.carteira = 2
    /\ Len(operacoes) = 1
    /\ operacoes[1].wallet_id = carteiras[1].id
    /\ operacoes[1].id = 2

\* C10: in every state, also between the two writes of a wallet deletion,
\* every operation of the ledger refers to a wallet of carteiras.csv (the
\* wallet record is never gone while operations referencing it exist).
C10_OperacoesAntesDaCarteira ==
    \A i \in 1..Len(operacoes) : operacoes[i].wallet_id \in Ids(carteiras)

\* the script run of session s writes, in this step, the frame it built for
\* deleting the operation id
ExclusaoConfirmada(s, id) ==
    /\ pc[s].linha = "save_exclusao"
    /\ pc'[s].linha = "idle"
    /\ session_state[s].confirm_delete_operation_id = id

\* the script run of session s writes, in this step, the frame it built for
\* recording the operation id
RegistroConfirmado(s, id) ==
    /\ pc[s].linha = "save_registro"
    /\ pc'[s].linha = "idle"
    /\ pc[s].df.rows[Len(pc[s].df.rows)].id = id

\* C11: with the script runs of the two users' sessions interleaved, an
\* operation of the ledger leaves it only in the step that writes its
\* confirmed deletion, and an operation enters the ledger only in the step
\* that writes its record: no recorded operation is lost and no deleted
\* operation comes back through the write of the other session.
C11_NenhumaEscritaPerdida ==
    [][/\ \A i \in 1..Len(operacoes) :
            \/ operacoes[i].id \in Ids(operacoes')
            \/ \E s \in Sessoes : ExclusaoConfirmada(s, operacoes[i].id)
       /\ \A j \in 1..Len(operacoes') :
            \/ operacoes'[j].id \in Ids(operacoes)
            \/ \E s \in Sessoes : RegistroConfirmado(s, operacoes'[j].id)]_vars

\* the places in the ledger of the operations of kind tipo and asset cripto
\* in the wallet accessed by session 1
DoAtivo(tipo, cripto) ==
    {i \in 1..Len(operacoes) :
        /\ operacoes[i].wallet_id = session_state[1].accessed_wallet_id
        /\ operacoes[i].cpf_usuario = session_state[1].cpf
        /\ operacoes[i].cripto = cripto
        /\ operacoes[i].tipo_operacao = tipo}

Detida(cripto) ==
    Soma(operacoes, DoAtivo("Compra", cripto), "quantidade")
        - Soma(operacoes, DoAtivo("Venda", cripto), "quantidade")

\* sum over the Sells at the places I of quantidade * preco_medio_compra_na_op,
\* a Sell without average counting 0
RECURSIVE BaseVendida(_)
BaseVendida(I) ==
    IF I = {} THEN Num(0)
    ELSE LET i == CHOOSE j \in I : TRUE
             v == operacoes[i]
             parte == IF v.preco_medio_compra_na_op.den = 0 THEN Num(0)
                      ELSE Times(v.quantidade, v.preco_medio_compra_na_op)
         IN  Mais(parte, BaseVendida(I \ {i}))

\* sum over the Sells at the places I of lucro_prejuizo_na_op where present
RECURSIVE LucroDe(_)
LucroDe(I) ==
    IF I = {} THEN Num(0)
    ELSE LET i == CHOOSE j \in I : TRUE
             l == operacoes[i].lucro_prejuizo_na_op
         IN  Mais(IF l.den = 0 THEN Num(0) ELSE l, LucroDe(I \ {i}))

Posicoes == portfolio(1).posicoes

\* C12: every position of the portfolio has Quantidade = bought - sold,
\* Custo Total = (sum of custo_total of the Buys) - (sum over the Sells of
\* quantidade * preco_medio_compra_na_op, a Sell without average counting
\* 0) and Custo Medio = Custo Total / Quantidade; with no Sell of the asset,
\* Quantidade is the quantity bought and Custo Total the cost of the Buys.
C12_PosicaoDoAtivo ==
    \A k \in 1..Len(Posicoes) :
        LET p == Posicoes[k]
            B == DoAtivo("Compra", p.Cripto)
            V == DoAtivo("Venda", p.Cripto)
            restante == Minus(Soma(operacoes, B, "custo_total"), BaseVendida(V))
        IN  /\ p.Quantidade = Detida(p.Cripto)
            /\ p.CustoTotal = restante
            /\ p.CustoMedio.den > 0
            /\ p.CustoMedio.num * p.Quantidade * restante.den
                    = restante.num * p.CustoMedio.den
            /\ V = {} => /\ p.Quantidade = Soma(operacoes, B, "quantidade")
                         /\ p.CustoTotal = Num(Soma(operacoes, B, "custo_total"))

\* A position of an asset that was bought and partly sold, the Sell with an
\* average that is not a whole number.
C12_Witness ==
    \E k \in 1..Len(Posicoes) :
        /\ \E i \in DoAtivo("Venda", Posicoes[k].Cripto) :
                operacoes[i].preco_medio_compra_na_op.den > 1
        /\ Posicoes[k].CustoTotal.den > 1
        /\ Posicoes[k].Quantidade > 1

\* C13: an asset has a position in the portfolio exactly when the quantity
\* bought minus the quantity sold in the wallet is above 0, and then only
\* one position.
C13_SoAtivosDetidos ==
    /\ \A c \in Criptos :
        (\E k \in 1..Len(Posicoes) : Posicoes[k].Cripto = c) <=> Detida(c) > 0
    /\ \A k, l \in 1..Len(Posicoes) :
        Posicoes[k].Cripto = Posicoes[l].Cripto => k = l

\* One asset sold for more than was bought and without position, another
\* with a position.
C13_Witness ==
    /\ \E c \in Criptos :
        /\ DoAtivo("Compra", c) # {}
        /\ Detida(c) < 0
        /\ \A k \in 1..Len(Posicoes) : Posicoes[k].Cripto # c
    /\ Posicoes # <<>>

\* the Sells of the wallet accessed by session 1, whatever the asset
VendasDaCarteira == UNION {DoAtivo("Venda", c) : c \in Criptos}

\* C14 as stated: the realized total is the sum of Lucro Realizado over the
\* positions of the portfolio, and the cost total the sum of their Custo
\* Total.
C14_TotaisSobreAsPosicoes ==
    /\ portfolio(1).total_lucro =
            LucroDe(UNION {DoAtivo("Venda", Posicoes[k].Cripto) : k \in 1..Len(Posicoes)})
    /\ portfolio(1).total_custo =
            sum_skipna([k \in 1..Len(Posicoes) |-> Posicoes[k].CustoTotal])

\* C14, amended: the realized total is the sum of lucro_prejuizo_na_op over
\* every Sell of the wallet that has one, the Sells of assets without
\* position included; the cost total is the sum of Custo Total over the
\* positions.
C14_LucroDeTodasAsVendas ==
    /\ portfolio(1).total_lucro = LucroDe(VendasDaCarteira)
    /\ portfolio(1).total_custo =
            sum_skipna([k \in 1..Len(Posicoes) |-> Posicoes[k].CustoTotal])

\* An asset sold in full with a gain, so without position, beside an asset
\* with a position: the realized total is not the sum over the positions.
C14_Witness ==
    /\ Posicoes # <<>>
    /\ \E c \in Criptos :
        /\ Detida(c) = 0
        /\ DoAtivo("Venda", c) # {}
        /\ LucroDe(DoAtivo("Venda", c)).num > 0
    /\ portfolio(1).total_lucro.num > 0

\* the rows of the wallet accessed by session 1, as stored
DaCarteira ==
    Rows(operacoes, LAMBDA r : /\ r.wallet_id = session_state[1].accessed_wallet_id
                               /\ r.cpf_usuario = session_state[1].cpf)

\* the portfolio as a function of the list of operations alone
PortfolioDaLista(lista) ==
    [posicoes |-> portfolio_df(lista),
     total_custo |-> total_custo_carteira_atualizado(lista),
     total_lucro |-> total_lucro_realizado(lista)]

Estrangeira(id) ==
    \E k \in 1..Len(carteiras) :
        carteiras[k].id = id /\ carteiras[k].nacional = "Estrangeira"

\* C16: a valid form with amount c and PTAX r > 0 submitted on a foreign
\* wallet stores custo_total = c * r, a Buy's average is that value over
\* the quantity and a Sell's result is that value minus quantity * average;
\* on a domestic wallet custo_total is the amount entered.
C16_ValorEmBRL ==
    [][\A tipo \in Tipos, q \in QuantidadesApp, c \in CustosApp,
          ptax \in Ptaxes, dh \in DataHorasApp :
        (/\ RegistrarOperacao(1, tipo, "BTC", q, c, ptax, dh)
         /\ q > 0 /\ c > 0
         /\ Estrangeira(session_state[1].accessed_wallet_id) => ptax > 0)
        => /\ Registrou
           /\ Nova.custo_total =
                IF Estrangeira(session_state[1].accessed_wallet_id)
                THEN c * ptax ELSE c
           /\ tipo = "Compra" =>
                Quociente(Nova.preco_medio_compra_na_op, Nova.custo_total, q)
           /\ (tipo = "Venda" /\ Nova.preco_medio_compra_na_op.den > 0) =>
                LET a == Nova.preco_medio_compra_na_op
                    l == Nova.lucro_prejuizo_na_op
                IN  /\ l.den > 0
                    /\ l.num * a.den = (Nova.custo_total * a.den - q * a.num) * l.den]_vars

\* Just after a Sell of amount 1 at PTAX 5 was recorded on a foreign wallet
\* over a Buy stored with 5 BRL: the Sell is stored with 5 BRL and result 0.
C16_Witness ==
    /\ Surgiu(mensagem, Sucesso)
    /\ Len(operacoes) = 2
    /\ Estrangeira(operacoes[2].wallet_id)
    /\ operacoes[1].wallet_id = operacoes[2].wallet_id
    /\ operacoes[1].tipo_operacao = "Compra"
    /\ operacoes[1].preco_medio_compra_na_op = Num(5)
    /\ operacoes[2].tipo_operacao = "Venda"
    /\ operacoes[2].custo_total = 5
    /\ operacoes[2].lucro_prejuizo_na_op = Num(0)

\* C17: every operation of the ledger that belongs to a domestic wallet has
\* no ptax_na_op (NaN); only operations of foreign wallets have one.
C17_PtaxSoEmEstrangeiras ==
    \A i \in 1..Len(operacoes) :
        Estrangeira(operacoes[i].wallet_id) \/ operacoes[i].ptax_na_op.den = 0

NaoEncontrada == "warning: A operacao que voce tentou excluir nao foi encontrada."

\* the session waits for the confirmation of the deletion of an operation
\* that is not in the ledger
Pendente(s) ==
    /\ session_state[s].confirm_delete_operation_id # 0
    /\ session_state[s].confirm_delete_operation_id \notin Ids(operacoes)

C19_CarteiraAusenteRecuperavel ==
    [][\A s \in Sessoes :
        CarteiraNaoEncontrada(s)
        => /\ session_state'[s].confirm_delete_wallet_id = 0
           /\ ~Surgiu(mensagem', "exception: IndexError")
           /\ carteiras' = carteiras
           /\ operacoes_csv' = operacoes_csv]_vars

\* the operation r is one the request asks for
Pedida(r, filter_type, filter_crypto, filter_date_range) ==
    /\ r.wallet_id = session_state[1].accessed_wallet_id
    /\ r.cpf_usuario = session_state[1].cpf
    /\ filter_type = {} \/ r.tipo_operacao \in filter_type
    /\ filter_crypto = {} \/ r.cripto \in filter_crypto
    /\ \/ filter_date_range = <<>>
       \/ /\ Len(filter_date_range) = 1
          /\ r.data_operacao.data = filter_date_range[1]
       \/ /\ Len(filter_date_range) = 2
          /\ filter_date_range[1] <= r.data_operacao.data
          /\ r.data_operacao.data <= filter_date_range[2]

\* C20: whatever the filter widgets hold, the listing shows each operation
\* of the accessed wallet and owner that passes every filter once, shows
\* nothing else, and shows them from the latest data_operacao to the
\* earliest.
C20_Listagem ==
    \A ops \in {operacoes} :
    \A ft \in FiltrosDeTipo, fc \in FiltrosDeCripto(1), fd \in FiltrosDeData :
        \A lista \in sorted_operations(1, ft, fc, fd) :
            /\ \A i \in 1..Len(ops) :
                    Pedida(ops[i], ft, fc, fd)
                    <=> \E k \in 1..Len(lista) : lista[k] = ops[i]
            /\ \A k \in 1..Len(lista) :
                    \E i \in 1..Len(ops) : ops[i] = lista[k]
            /\ \A k, l \in 1..Len(lista) :
                    /\ k # l => lista[k].id # lista[l].id
                    /\ k < l => AteOInstante(lista[l], lista[k])

\* A wallet with operations of both kinds and both assets on three days,
\* recorded in an order that is not the order of their dates, beside an
\* operation of another wallet; the range of days 2 to 3 lists two of them.
C20_Witness ==
    /\ Len(DaCarteira) = 3
    /\ \E i \in 1..Len(operacoes) :
            operacoes[i].wallet_id # session_state[1].accessed_wallet_id
    /\ DaCarteira[1].data_operacao.data = 1
    /\ DaCarteira[2].data_operacao.data = 3
    /\ DaCarteira[3].data_operacao.data = 2
    /\ {DaCarteira[k].tipo_operacao : k \in 1..3} = Tipos
    /\ {DaCarteira[k].cripto : k \in 1..3} = Criptos
    /\ \A lista \in sorted_operations(1, {}, {}, <<2, 3>>) :
            /\ Len(lista) = 2
            /\ lista[1] = DaCarteira[2]
            /\ lista[2] = DaCarteira[3]

----------------------------------------------------------------------------
(* SpecCusto: one wallet whose owner never deletes, records every          *)
(* operation with a timestamp not earlier than those of the ledger, and    *)
(* never sells more than is held.                                          *)

MaxOperacoesCusto == 4
QuantidadesCusto == {1, 3, 4}
DatasCusto == 1..2

NextCusto ==
    /\ UNCHANGED <<servidor_vars, coleta_vars>>
    /\ uuid.operacao < MaxOperacoesCusto
    /\ \E tipo \in Tipos, q \in QuantidadesCusto, d \in DatasCusto :
        /\ \A i \in 1..Len(operacoes) :
                dt_le(operacoes[i].data_operacao, Datetime(d, 0, 0))
        /\ tipo = "Venda" => q <= Detida("BTC")
        /\ RegistrarOperacao(1, tipo, "BTC", q, 1, 1, Datetime(d, 0, 0))

SpecCusto == EstadoDuas /\ [][NextCusto]_vars

\* C23: with no deletion, timestamps that never go back and no Sell above
\* the quantity held, every position has Custo Total >= 0 and Custo Medio
\* >= 0.
C23_CustoNaoNegativo ==
    \A k \in 1..Len(Posicoes) :
        /\ Posicoes[k].CustoTotal.num >= 0
        /\ Posicoes[k].CustoMedio.num >= 0

----------------------------------------------------------------------------
(* The catalog server.                                                     *)

\* the cache file can be read
Utilizavel == cache_file.existe /\ cache_file.linhas # <<>>

\* the provider is asked: no readable cache younger than a day
Pergunta == ~(Utilizavel /\ cache_file.recente)

C29_CacheDeUmDia ==
    [][\A search \in Buscas, resposta \in RespostasDoProvedor :
        get_cryptocurrencies(search, resposta)
        => IF ~Pergunta
           THEN /\ servidor'.pedidos = 0
                /\ cache_file' = cache_file
                /\ search = "" => /\ servidor'.status = 200
                                  /\ servidor'.corpo = read_csv(cache_file)
           ELSE /\ servidor'.pedidos = 1
                /\ resposta.tipo = "lista"
                    => /\ cache_file'.existe
                       /\ cache_file'.recente
                       /\ cache_file'.linhas = resposta.json
                       /\ search = "" => /\ servidor'.status = 200
                                         /\ servidor'.corpo = resposta.json]_vars

\* A young cache was served without a provider request; it holds the list
\* the provider gave to an earlier run.
C29_Witness ==
    /\ Utilizavel
    /\ cache_file.recente
    /\ servidor.pedidos = 0
    /\ servidor.search = ""
    /\ servidor.status = 200
    /\ servidor.corpo = <<"btc", NaNCell>>

----------------------------------------------------------------------------
(* The price refresh job.                                                  *)

\* C22: a run in which a page was given up (all of them, or some) leaves
\* the snapshot of the last complete run in cryptos.json.
C22_SnapshotPreservado ==
    (coleta.linha = "fim" /\ coleta.puladas # {})
        => cryptos_file.cryptos = SnapshotAnterior

\* C27: every run ends, whatever the provider does; no page is requested
\* more than MAX_RETRIES times; a page that was given up is followed by the
\* next one; the snapshot is written once, after the last page.
C27_ColetaTermina ==
    /\ [](coleta.pedidos <= MAX_RETRIES)
    /\ [](cryptos_file.escritas <= 1)
    /\ [](cryptos_file.escritas = 1 =>
            coleta.linha = "fim" /\ coleta.page = TOTAL_PAGES_TO_FETCH)
    /\ \A p \in 1..(TOTAL_PAGES_TO_FETCH - 1) :
            (coleta.page = p /\ coleta.linha = "while" /\ ~coleta.success
                /\ coleta.retries >= MAX_RETRIES)
            ~> (coleta.page = p + 1 /\ coleta.pedidos = 1)
    /\ <>(coleta.linha = "fim")

\* C28: no coin of a page is in the collected list twice.
C28_SemDuplicatas ==
    \A i, j \in 1..Len(coleta.all_cryptos_data) :
        (i # j /\ coleta.origem[i] = coleta.origem[j])
            => coleta.all_cryptos_data[i] # coleta.all_cryptos_data[j]

----------------------------------------------------------------------------
(* Sessions.                                                               *)

\* C30: a session that is logged in holds the cpf of a registered user.
C30_LogadoSoComCpfRegistrado ==
    \A s \in Sessoes :
        session_state[s].logged_in
            => \E i \in 1..Len(users) : users[i].cpf = session_state[s].cpf

----------------------------------------------------------------------------
(* Average cost after Sells.                                               *)

\* every Buy of the asset in the accessed wallet stands before every Sell
\* of it, in the ledger and in time
ComprasAntesDasVendas(cripto) ==
    \A i \in DoAtivo("Compra", cripto), j \in DoAtivo("Venda", cripto) :
        i < j /\ AteOInstante(operacoes[i], operacoes[j])

\* the position p carries the pooled average of the Buys of its asset:
\* Custo Medio = cost bought / quantity bought, Custo Total = quantity held
\* times that
MediaConjunta(p) ==
    LET B == DoAtivo("Compra", p.Cripto)
        custo == Soma(operacoes, B, "custo_total")
        quantidade == Soma(operacoes, B, "quantidade")
    IN  /\ Quociente(p.CustoMedio, custo, quantidade)
        /\ p.CustoTotal.den > 0
        /\ p.CustoTotal.num * quantidade = p.Quantidade * custo * p.CustoTotal.den

\* C24 as stated: an asset still held whose Buys all precede its Sells has
\* the pooled average of its Buys as Custo Medio, and Custo Total =
\* Quantidade * Custo Medio.
C24_VendasNaoMovemAMedia ==
    \A k \in 1..Len(Posicoes) :
        ComprasAntesDasVendas(Posicoes[k].Cripto) => MediaConjunta(Posicoes[k])

\* C24, amended: the same, in a ledger from which nothing was deleted.
C24_SemExclusoes ==
    NuncaExcluiu =>
        \A k \in 1..Len(Posicoes) :
            ComprasAntesDasVendas(Posicoes[k].Cripto) => MediaConjunta(Posicoes[k])

\* Two Buys at different prices, then a Sell, nothing deleted: 3 units are
\* held at the pooled average 3/4.
C24_Witness ==
    /\ NuncaExcluiu
    /\ \E k \in 1..Len(Posicoes) :
        /\ Posicoes[k].Cripto = "BTC"
        /\ Cardinality(DoAtivo("Compra", "BTC")) = 2
        /\ DoAtivo("Venda", "BTC") # {}
        /\ ComprasAntesDasVendas("BTC")
        /\ Posicoes[k].Quantidade = 3
        /\ Posicoes[k].CustoMedio = Div(3, 4)

----------------------------------------------------------------------------
(* The pending deletion of an operation.                                   *)

\* the operation at place i of the ledger is gone after the step
Removida(i) == \A j \in 1..Len(operacoes') : operacoes'[j].id # operacoes[i].id

\* the step is the confirmation, by a session whose flag holds the id
ConfirmadaPeloDono(i) ==
    /\ Surgiu(mensagem', Excluida)
    /\ \E s \in Sessoes :
        /\ session_state[s].confirm_delete_operation_id = operacoes[i].id
        /\ session_state'[s].confirm_delete_operation_id = 0

\* the step is the confirmed deletion of the wallet of the operation
LevadaComACarteira(i) ==
    /\ Surgiu(mensagem', CarteiraExcluida)
    /\ \E s \in Sessoes :
        session_state[s].confirm_delete_wallet_id = operacoes[i].wallet_id
    /\ \A k \in 1..Len(carteiras') : carteiras'[k].id # operacoes[i].wallet_id

\* Cancelar, a sidebar button, Acessar Carteira and Sair clear the flag and
\* leave the ledger as it is
LimpamSemMexer ==
    \A s \in Sessoes :
        (\/ CancelarExclusaoOperacao(s)
         \/ \E page_name \in SidebarPages : SidebarBtn(s, page_name)
         \/ \E id \in 1..MaxCarteiras : AcessarCarteira(s, id)
         \/ Sair(s))
        => /\ session_state'[s].confirm_delete_operation_id = 0
           /\ operacoes_csv' = operacoes_csv

\* a pending flag names an operation of the accessed wallet, or none
FlagNaCarteiraAcessada ==
    \A s \in Sessoes :
        session_state[s].confirm_delete_operation_id # 0
        => \A i \in 1..Len(operacoes) :
            operacoes[i].id = session_state[s].confirm_delete_operation_id
            => operacoes[i].wallet_id = session_state[s].accessed_wallet_id

\* C26 as stated: an operation leaves the ledger only in the confirmation
\* step of a session whose flag holds its id; Cancelar, the sidebar,
\* Acessar Carteira and Sair clear the flag without touching the ledger; a
\* pending flag names an operation of the accessed wallet or no operation.
C26_SoPelaConfirmacao ==
    /\ []FlagNaCarteiraAcessada
    /\ [][LimpamSemMexer]_vars
    /\ [][\A i \in 1..Len(operacoes) : Removida(i) => ConfirmadaPeloDono(i)]_vars

\* C26, amended: the same, an operation leaving the ledger also when the
\* deletion of its wallet is confirmed.
C26_ConfirmacaoOuCascata ==
    /\ []FlagNaCarteiraAcessada
    /\ [][LimpamSemMexer]_vars
    /\ [][\A i \in 1..Len(operacoes) :
            Removida(i) => ConfirmadaPeloDono(i) \/ LevadaComACarteira(i)]_vars

\* An operation has just been deleted through the confirmation while
\* another one stays in the ledger.
C26_Witness ==
    /\ Surgiu(mensagem, Excluida)
    /\ session_state[1].confirm_delete_operation_id = 0
    /\ uuid.operacao = 2
    /\ Len(operacoes) = 1

----------------------------------------------------------------------------
(* SpecIsol: user 111 with the wallets 1 and 3, user 222 with wallet 2,    *)
(* one session each, script runs one at a time.  Each records and deletes  *)
(* operations in the wallet it has accessed and can delete own wallets.    *)
(* Wallet 1 holds a Buy at cost 1 and wallet 2 a Buy at cost 2 of the same *)
(* asset.                                                                  *)

MaxOperacoesIsol == 3
MaxCarteirasIsol == 3

EstadoIsol ==
    /\ users = <<[cpf |-> "111", name |-> "ana", password_hash |-> hash_password("s1")],
                 [cpf |-> "222", name |-> "ana", password_hash |-> hash_password("s1")]>>
    /\ carteiras = <<[id |-> 1, nacional |-> "Nacional", cpf_usuario |-> "111"],
                     [id |-> 2, nacional |-> "Nacional", cpf_usuario |-> "222"],
                     [id |-> 3, nacional |-> "Nacional", cpf_usuario |-> "111"]>>
    /\ operacoes_csv = [exists |-> TRUE,
                        rows |-> <<Compra(1, 1, 1, 1),
                                   [Compra(2, 2, 2, 1) EXCEPT !.cpf_usuario = "222"]>>]
    /\ uuid = [carteira |-> 3, operacao |-> 2]
    /\ session_state = [s \in Sessoes |->
            [SessaoInicial EXCEPT !.cpf = IF s = 1 THEN "111" ELSE "222",
                                  !.pagina_atual = "Detalhes da Carteira",
                                  !.accessed_wallet_id = s]]
    /\ mensagem = <<>>
    /\ pc = [s \in Sessoes |-> Ocioso]
    /\ ServidorInicial
    /\ ColetaInicial
CustosIsol == 1..2

RegistrarIsol(s) ==
    /\ uuid.operacao < MaxOperacoesIsol
    /\ \E tipo \in Tipos, c \in CustosIsol :
            RegistrarOperacao(s, tipo, "BTC", 1, c, 1, Datetime(1, 0, 0))

NextIsol ==
    \E s \in Sessoes :
        \/ /\ UNCHANGED <<servidor_vars, coleta_vars>>
           /\ RegistrarIsol(s)
        \/ /\ UNCHANGED <<servidor_vars, coleta_vars>>
           /\ \E id \in 1..MaxOperacoesIsol : ExcluirOperacaoBtn(s, id)
        \/ /\ UNCHANGED <<servidor_vars, coleta_vars>>
           /\ ConfirmarExclusaoOperacao(s)
        \/ /\ UNCHANGED <<servidor_vars, coleta_vars>>
           /\ CancelarExclusaoOperacao(s)
        \/ /\ UNCHANGED <<servidor_vars, coleta_vars>>
           /\ SidebarBtn(s, "Carteiras")
        \/ /\ UNCHANGED <<servidor_vars, coleta_vars>>
           /\ \E id \in 1..MaxCarteirasIsol : AcessarCarteira(s, id)
        \/ /\ UNCHANGED <<servidor_vars, coleta_vars>>
           /\ \E id \in 1..MaxCarteirasIsol : ExcluirCarteiraBtn(s, id)
        \/ /\ UNCHANGED <<servidor_vars, coleta_vars>>
           /\ ConfirmarExclusaoCarteira(s)
        \/ /\ UNCHANGED <<servidor_vars, coleta_vars>>
           /\ CancelarExclusaoCarteira(s)

SpecIsol == EstadoIsol /\ [][NextIsol]_vars

\* the stored operations of the wallet and owner the session t looks at
DaCarteiraDe(t) ==
    Rows(operacoes, LAMBDA r : /\ r.wallet_id = session_state[t].accessed_wallet_id
                               /\ r.cpf_usuario = session_state[t].cpf)

\* the stored operations of the wallet w
NaCarteira(ops, w) == Rows(ops, LAMBDA r : r.wallet_id = w)

\* the session t is on the details page of a wallet
Observa(t) ==
    /\ session_state[t].pagina_atual = "Detalhes da Carteira"
    /\ session_state[t].accessed_wallet_id # 0

\* the step is a write of session s to the wallet w: an operation recorded
\* or deleted in w, or w deleted
EscreveEm(s, w) ==
    \/ /\ RegistrarIsol(s) \/ ConfirmarExclusaoOperacao(s)
       /\ session_state[s].accessed_wallet_id = w
    \/ /\ ConfirmarExclusaoCarteira(s)
       /\ session_state[s].confirm_delete_wallet_id = w

\* the listing and the portfolio of the session t are after the step what
\* they were before it
Inalterada(t) ==
    \E antes \in {wallet_operations_all(t)}, depois \in {wallet_operations_all(t)'} :
    \E ops_antes \in {wallet_ops_for_portfolio(t)},
       ops_depois \in {wallet_ops_for_portfolio(t)'} :
        /\ depois = antes
        /\ PortfolioDaLista(ops_depois) = PortfolioDaLista(ops_antes)

\* C25: the portfolio of a wallet is computed from the operations of that
\* wallet and owner alone; a step that records or deletes an operation in a
\* wallet, or deletes the wallet, leaves the listing and the portfolio of
\* every session that looks at another wallet, and the stored operations
\* of every other wallet, as they were; the average stored with a Sell is
\* that of the Buys of its own wallet and owner.
C25_CarteirasIsoladas ==
    /\ [](\A t \in Sessoes : Observa(t) => portfolio(t) = PortfolioDaLista(DaCarteiraDe(t)))
    /\ [][\A s, t \in Sessoes : \A w \in 1..MaxCarteirasIsol :
            (EscreveEm(s, w) /\ Observa(t) /\ session_state[t].accessed_wallet_id # w)
            => Inalterada(t)]_vars
    /\ [][\A s \in Sessoes : \A w, outra \in 1..MaxCarteirasIsol :
            (EscreveEm(s, w) /\ outra # w)
            => \E antes \in {operacoes}, depois \in {operacoes'} :
                    NaCarteira(depois, outra) = NaCarteira(antes, outra)]_vars
    /\ [][(Registrou /\ Nova.tipo_operacao = "Venda")
            => LET Q == Qualificadas(operacoes, Nova)
               IN  IF Q = {} THEN Nova.preco_medio_compra_na_op.den = 0
                   ELSE Quociente(Nova.preco_medio_compra_na_op,
                                  Soma(operacoes, Q, "custo_total"),
                                  Soma(operacoes, Q, "quantidade"))]_vars

\* Session 1 has just recorded in wallet 3 a Sell that found no Buy there,
\* although the same owner's wallet 1 holds a Buy of the asset and wallet 2
\* of the other owner, which session 2 looks at, holds one at another cost.
C25_Witness ==
    /\ Surgiu(mensagem, Sucesso)
    /\ Observa(1) /\ Observa(2)
    /\ session_state[1].accessed_wallet_id = 3
    /\ session_state[2].accessed_wallet_id = 2
    /\ Len(operacoes) = 3
    /\ operacoes[1].wallet_id = 1
    /\ operacoes[2].wallet_id = 2
    /\ operacoes[2].custo_total = 2
    /\ operacoes[3].wallet_id = 3
    /\ operacoes[3].tipo_operacao = "Venda"
    /\ operacoes[3].preco_medio_compra_na_op.den = 0
    /\ Len(portfolio(2).posicoes) = 1

====
